---- MODULE Spec2Model ----
(***************************************************************************)
(* Metagify / Metatag: audio tag editors.  The model covers the batch save *)
(* engine (FileProcessor.process_and_save), release application            *)
(* (apply_musicbrainz_data, process_and_save_musicbrainz), the editor's    *)
(* single/batch save, the embedded-picture writers and reader, and         *)
(* Metagify's main window: file loading, the MusicBrainz search dialog, the *)
(* release fetch and the threads they run in.                              *)
(*                                                                         *)
(* A file on disk is what the mutagen objects expose to the program: the   *)
(* "easy" tag dictionary (key -> list of strings), and the picture store   *)
(* of its container (APIC frames, FLAC picture blocks, the MP4 covr atom,  *)
(* the Vorbis metadata_block_picture comment).                             *)
(***************************************************************************)
EXTENDS Integers, Sequences, FiniteSets, Bags, TLC

\* ------------------------------------------------------------------ bounds
MaxFiles == 3        \* longest selection handed to one operation
MaxTracks == 3       \* longest track list of a release
MaxBatch == 2        \* longest selection made in an editing session
MaxEvents == 1       \* user events handled inside one running Metatag save
MaxThreads == 2      \* run_in_thread threads that have not delivered yet
MaxLingering == 1    \* threads whose function raised, left running

\* --------------------------------------------------------------- constants
\* Python's None, b'' and the image payloads (opaque byte strings).
None == "None"
EmptyBytes == ""

\* TAG_MAP: display name -> easy key (insertion order of the dict literal).
FieldOrder ==
    << "Title", "Artist", "Album", "Album Artist", "Year", "Genre",
       "Track Number", "Composer", "Producer", "Copyright", "Comment",
       "BPM", "ISRC", "Catalog Number" >>

TagKeyOrder ==
    << "title", "artist", "album", "albumartist", "date", "genre",
       "tracknumber", "composer", "producer", "copyright", "comment",
       "bpm", "isrc", "catalognumber" >>

Fields == {FieldOrder[i] : i \in 1..Len(FieldOrder)}
Keys == {TagKeyOrder[i] : i \in 1..Len(TagKeyOrder)}

TAG_MAP ==
    [d \in Fields |->
        TagKeyOrder[CHOOSE i \in 1..Len(FieldOrder) : FieldOrder[i] = d]]

\* ------------------------------------------------------------------- paths
\* A path is directory + file name + extension.  Names are compared as Python
\* compares strings; the names used here are single letters.
NameRank == [a |-> 1, b |-> 2, c |-> 3, d |-> 4]
ExtRank(e) ==
    CASE e = ".flac" -> 1 [] e = ".m4a" -> 2 [] e = ".mp3" -> 3 [] e = ".ogg" -> 4

Path(dir, name, ext) == [dir |-> dir, name |-> name, ext |-> ext]

\* os.path.basename(path)
basename(p) == <<p.name, p.ext>>

\* basename(p) < basename(q) as strings
BasenameLess(p, q) ==
    \/ NameRank[p.name] < NameRank[q.name]
    \/ p.name = q.name /\ ExtRank(p.ext) < ExtRank(q.ext)

\* os.path.splitext(file_path)[1].lower()
ext_of(p) == p.ext

\* ------------------------------------------------------------------- texts
\* A Python str is a sequence of one-character strings; "" is <<>>.
Empty == <<>>
TX == <<"x">>
TY == <<"y">>

\* bool(value) of a str
Truthy(text) == text # Empty

\* ------------------------------------------------------------ file contents
\* tags[key] is the list of values the easy interface holds under key; the
\* empty list stands for "key not in audio".  art is the container's picture
\* store in order; covr tells whether the MP4 'covr' key exists.
Absent == <<>>
HasKey(f, key) == f.tags[key] # Absent

\* audio.get(key, [''])[0]
FirstValue(f, key) == IF HasKey(f, key) THEN f.tags[key][1] ELSE Empty

Pic(desc, mime, data) == [desc |-> desc, mime |-> mime, data |-> data]

\* base64.b64encode(pic.write()).decode('ascii'): the encoded block is not
\* the picture; only a decoder gives the picture back.
B64Encode(pic) == [b64 |-> pic]

\* MP4Cover image formats
FORMAT_JPEG == 13
FORMAT_PNG == 14
MP4Cover(data, imageformat) == [data |-> data, imageformat |-> imageformat]

NoTags == [k \in Keys |-> Absent]
BlankFile == [tags |-> NoTags, art |-> <<>>, covr |-> FALSE]

\* ---------------------------------------------------------- tag write (easy)
\* The body of the "Save metadata" loop: a non-empty value replaces the list
\* under its key by [value]; an empty one deletes the key when it is there.
\* Variant: a blank value is stored instead of deleting the key.
SetTag_storesBlank(tags, key, value) ==
    [tags EXCEPT ![key] = <<value>>]

SetTag(tags, key, value) ==
    IF Truthy(value)
    THEN [tags EXCEPT ![key] = <<value>>]
    ELSE IF tags[key] # Absent THEN [tags EXCEPT ![key] = Absent] ELSE tags

RECURSIVE ApplyTagsFrom(_, _, _)
ApplyTagsFrom(tags, tags_to_save, i) ==
    IF i > Len(FieldOrder) THEN tags
    ELSE LET d == FieldOrder[i] IN
         ApplyTagsFrom(
            IF d \in DOMAIN tags_to_save
            THEN SetTag(tags, TAG_MAP[d], tags_to_save[d])
            ELSE tags,
            tags_to_save, i + 1)

\* for tag_display, value in tags_to_save.items(): ...
ApplyTags(tags, tags_to_save) == ApplyTagsFrom(tags, tags_to_save, 1)

\* -------------------------------------------------------- picture writers
\* FileProcessor._save_album_art_to_file, for a file mutagen opened.
\*   .mp3   delall('APIC'), then add APIC(desc='Cover')
\*   .flac  clear_pictures(), then add_picture
\*   .m4a   tags['covr'] = [], then tags['covr'] = [MP4Cover]
\*   .ogg   pop metadata_block_picture, then store the base64 of the block
save_album_art_to_file(f, ext, art_data, art_mime) ==
    LET delete_art == (art_data = EmptyBytes)
        pic == Pic("Cover", art_mime, art_data)
        image_format == IF art_mime = "image/png" THEN FORMAT_PNG ELSE FORMAT_JPEG
    IN  CASE ext = ".mp3" ->
                [f EXCEPT !.art = IF delete_art THEN <<>> ELSE <<pic>>]
          [] ext = ".flac" ->
                [f EXCEPT !.art = IF delete_art THEN <<>> ELSE <<pic>>]
          [] ext = ".m4a" ->
                [f EXCEPT !.covr = TRUE,
                          !.art = IF delete_art THEN <<>>
                                  ELSE <<MP4Cover(art_data, image_format)>>]
          [] ext = ".ogg" ->
                [f EXCEPT !.art = IF delete_art THEN <<>> ELSE <<B64Encode(pic)>>]
          [] OTHER -> f

\* Metatag.save_album_art_to_file: three branches (.mp3, .flac, .m4a), the
\* MIME type fixed to image/jpeg; any other extension is only re-saved.
Metatag_save_album_art_to_file(f, ext, art_data) ==
    LET delete_art == (art_data = EmptyBytes)
        pic == Pic("Cover", "image/jpeg", art_data)
    IN  CASE ext = ".mp3" ->
                [f EXCEPT !.art = IF delete_art THEN <<>> ELSE <<pic>>]
          [] ext = ".flac" ->
                [f EXCEPT !.art = IF delete_art THEN <<>> ELSE <<pic>>]
          [] ext = ".m4a" ->
                [f EXCEPT !.covr = ~delete_art,
                          !.art = IF delete_art THEN <<>>
                                  ELSE <<MP4Cover(art_data, FORMAT_JPEG)>>]
          [] OTHER -> f

\* --------------------------------------------------------- picture reader
\* load_album_art looks up, in this order: the ID3 frame whose key is 'APIC:'
\* (an APIC frame's key is 'APIC:' + its description), the MP4 'covr' list,
\* and the `pictures` attribute, which only the FLAC object has; a missing
\* attribute or an index out of range ends in the except branch.
NoArt == "No Album Art"
ErrorLoadingArt == "Error Loading Art"

ApicIndex(f) == {i \in 1..Len(f.art) : f.art[i].desc = ""}

load_album_art(f, ext) ==
    LET shown(artwork) == IF artwork # EmptyBytes THEN artwork ELSE NoArt IN
    IF ext = ".mp3" /\ ApicIndex(f) # {}
    THEN shown(f.art[CHOOSE i \in ApicIndex(f) : \A j \in ApicIndex(f) : i <= j].data)
    ELSE IF ext = ".m4a" /\ f.covr
    THEN IF f.art = <<>> THEN ErrorLoadingArt ELSE shown(f.art[1].data)
    ELSE IF ext = ".flac"
    THEN IF f.art # <<>> THEN shown(f.art[1].data) ELSE NoArt
    ELSE ErrorLoadingArt

\* Whether the file holds any embedded picture entry.
HasPicture(f) == f.art # <<>>

\* ------------------------------------------------------------------ sorting
\* list.sort(key=basename): stable, ascending.
RECURSIVE InsertByBasename(_, _)
InsertByBasename(sorted, p) ==
    IF sorted = <<>> THEN <<p>>
    ELSE IF BasenameLess(p, sorted[Len(sorted)])
         THEN Append(InsertByBasename(SubSeq(sorted, 1, Len(sorted) - 1), p),
                     sorted[Len(sorted)])
         ELSE Append(sorted, p)

\* Variant: the paths are paired in the order the selection gives them.
SortByBasename_asSelected(paths) == paths

RECURSIVE SortByBasename(_)
SortByBasename(paths) ==
    IF paths = <<>> THEN <<>>
    ELSE InsertByBasename(SortByBasename(SubSeq(paths, 1, Len(paths) - 1)),
                          paths[Len(paths)])

\* QTableWidget sorting by the File column (the base name shown in it), as
\* setSortingEnabled(True) and a click on the header do it: a stable sort in
\* the order of the header's sort indicator.
Ascending == "Qt.AscendingOrder"
Descending == "Qt.DescendingOrder"
Reverse(q) == [i \in 1..Len(q) |-> q[Len(q) + 1 - i]]
sortByColumn(rows, order) ==
    IF order = Ascending THEN SortByBasename(rows)
    ELSE Reverse(SortByBasename(Reverse(rows)))

\* --------------------------------------------------------------- releases
\* What musicbrainzngs.get_release_by_id(...)['release'] hands over.  Text(n)
\* spells a small number in decimal; track i of a release is titled "T<i>".
Digits == << "0", "1", "2", "3", "4", "5", "6", "7", "8", "9" >>

RECURSIVE Str(_)
Str(n) == IF n < 10 THEN <<Digits[n + 1]>>
          ELSE Append(Str(n \div 10), Digits[(n % 10) + 1])

Track(i, has_artist) ==
    [number |-> Str(i), title |-> <<"T">> \o Str(i),
     has_artist |-> has_artist, artist |-> <<"A">> \o Str(i)]

\* medium:     release['medium-list'][0]['track-list'] exists
\* has_artist: 'artist-credit-phrase' in release;  has_title: 'title' in release
\* has_date:   'date' in release;  has_count: 'track-count' in the medium
MakeRelease(n, medium, has_artist, has_title, has_date, date, has_count, count, track_artists) ==
    [medium |-> medium,
     tracks |-> [i \in 1..n |-> Track(i, track_artists)],
     has_artist |-> has_artist, artist |-> <<"R">>,
     has_title |-> has_title, title |-> <<"L">>,
     has_date |-> has_date, date |-> date,
     has_count |-> has_count, count |-> count]

Date2020 == << "2", "0", "2", "0", "-", "0", "5" >>
NoRelease == MakeRelease(0, FALSE, FALSE, FALSE, FALSE, Empty, FALSE, 0, FALSE)

\* QPixmap.scaled(500, 500, ...) re-encoded: a payload distinct from its source.
Resize(art_data) == "R" \o art_data

\* ------------------------------------------------------------ file systems
\* One file per container format, and a set with two names in two directories.
FormatPaths ==
    { Path("d1", "b", ".mp3"), Path("d1", "a", ".flac"),
      Path("d1", "c", ".m4a"), Path("d1", "d", ".ogg") }
PairingPaths ==
    { Path("d1", "b", ".mp3"), Path("d1", "a", ".mp3"),
      Path("d2", "a", ".mp3"), Path("d1", "c", ".flac") }

\* A picture embedded by another tagger (description ''), per container.
OldPicture == Pic("", "image/jpeg", "P2")
BackPicture == Pic("Back", "image/jpeg", "P2")
ForeignArt(ext, pics) ==
    CASE ext = ".m4a" -> [i \in 1..Len(pics) |-> MP4Cover(pics[i].data, FORMAT_JPEG)]
      [] ext = ".ogg" -> [i \in 1..Len(pics) |-> B64Encode(pics[i])]
      [] OTHER -> pics

WithArt(f, ext, pics) ==
    [f EXCEPT !.art = ForeignArt(ext, pics), !.covr = (ext = ".m4a")]

\* Four kinds of content a file starts with: untagged; tagged, with two
\* artists and a picture; a title present but blank; tagged with two pictures.
Profile(n, ext) ==
    CASE n = 0 -> BlankFile
      [] n = 1 -> WithArt([BlankFile EXCEPT !.tags =
                              [NoTags EXCEPT !["title"] = <<TX>>,
                                             !["artist"] = <<TX, TY>>]],
                          ext, <<OldPicture>>)
      [] n = 2 -> [BlankFile EXCEPT !.tags =
                      [NoTags EXCEPT !["title"] = <<Empty>>,
                                     !["album"] = <<TY>>]]
      [] OTHER -> WithArt([BlankFile EXCEPT !.tags =
                              [NoTags EXCEPT !["title"] = <<TY>>]],
                          ext, <<BackPicture, OldPicture>>)

InitialDisk(paths, r) ==
    [p \in paths |->
        Profile((NameRank[p.name] + (IF p.dir = "d1" THEN 0 ELSE 1) + r) % 4,
                p.ext)]

\* Sequences without repetition over S, of length at most n.
InjSeqs(S, n) ==
    UNION { { q \in [1..k -> S] : \A i, j \in 1..k : i # j => q[i] # q[j] }
            : k \in 0..n }

\* The elements of a sequence, and a set listed in some fixed order.
Rows(q) == {q[i] : i \in 1..Len(q)}
Listed(S) == CHOOSE q \in [1..Cardinality(S) -> S] : Rows(q) = S

\* ----------------------------------------------------------------- state
VARIABLES
    app,               \* which program this session runs: Metagify or Metatag
    disk,              \* path -> file contents
    selected,          \* file_list.selectedItems(), as paths, in Qt's order
    fields,            \* display name -> text of its QLineEdit
    checkboxes,        \* display name -> checkbox state (batch mode)
    editor_visible,    \* scroll_area.isVisible(): the editor and Save button
    current_art_data,  \* Metagify.current_art_data
    current_art_mime,  \* Metagify.current_art_mime
    art_is_dirty,      \* Metagify.art_is_dirty
    album_art_label,   \* what load_album_art last showed
    stop_requested,    \* FileProcessor.stop_requested
    pc,                \* where the file processor is
    job,               \* arguments of the running process_and_save*
    idx,               \* loop index i (0-based) of the next file
    saved_count,       \* saved_count / applied_count
    errors,            \* the errors list
    progress,          \* processing_progress emissions of the run, in order
    report,            \* processing_finished emissions, in order
    error_signal,      \* number of processing_error emissions
    status,            \* last outcome shown in the status bar
    attempted,         \* history: files whose try block was entered, with fate
    snapshot,          \* history: disk when the running operation started
    stop_at,           \* history: loop index at which a stop came in, or none
    request,           \* history: what Save / Apply was invoked with
    edited,            \* history: a field was typed into since the selection changed
    file_list,         \* the rows of file_list / file_table as displayed, each
                       \* row named by the path it was added with
    Metagify_file_paths, \* Metagify.file_paths
    files_data,        \* Metatag.files_data: row number -> path (rows from 1)
    sort_order,        \* Metatag: the sort indicator of file_table's header
    lingering,         \* QThreads whose worker emitted `error`
    enabled,           \* widget name -> isEnabled()
    contact_email,     \* the contact e-mail read at start-up, or None
    threads,           \* run_in_thread workers that have not delivered yet
    dialog,            \* the modal SearchDialog: closed, open, or showing results
    art_response       \* history: what the cover-art request of the fetch met

vars == << app, disk, selected, fields, checkboxes, editor_visible, current_art_data,
           current_art_mime, art_is_dirty, album_art_label, stop_requested, pc,
           job, idx, saved_count, errors, progress, report, error_signal,
           status, attempted, snapshot, stop_at, request, edited, file_list,
           enabled, contact_email, threads, dialog, art_response,
           Metagify_file_paths, files_data, sort_order, lingering >>

list_vars == << Metagify_file_paths, files_data, sort_order >>
shell_vars == << file_list, enabled, contact_email, threads, dialog, art_response,
                 list_vars, lingering >>
ui_vars == << selected, fields, checkboxes, editor_visible, current_art_data,
              current_art_mime, art_is_dirty, album_art_label >>
loop_vars == << idx, saved_count, errors, progress, attempted >>

\* ------------------------------------------------------------ the editor
BatchArtText == "Album art can be changed for all selected files"
NoFields == [d \in Fields |-> Empty]
Unchecked == [d \in Fields |-> FALSE]

\* update_editor_for_single's field loop: the text of a key in the file is
\* its first value; a key not in the file clears the field.
LoadFields(f) ==
    [d \in Fields |-> IF HasKey(f, TAG_MAP[d]) THEN FirstValue(f, TAG_MAP[d])
                      ELSE Empty]

\* The editor state as one record.
Ui == [fields |-> fields, checkboxes |-> checkboxes,
       editor_visible |-> editor_visible,
       current_art_data |-> current_art_data,
       current_art_mime |-> current_art_mime,
       art_is_dirty |-> art_is_dirty, album_art_label |-> album_art_label]

SetUi(ui) ==
    /\ fields' = ui.fields
    /\ checkboxes' = ui.checkboxes
    /\ editor_visible' = ui.editor_visible
    /\ current_art_data' = ui.current_art_data
    /\ current_art_mime' = ui.current_art_mime
    /\ art_is_dirty' = ui.art_is_dirty
    /\ album_art_label' = ui.album_art_label

\* The widgets whose enabled state the handlers switch.
Widgets ==
    {"load_button", "musicbrainz_button", "remove_button", "clear_button",
     "save_button", "file_list"}

\* set_ui_enabled(enabled): the same state for all six.
set_ui_enabled(e) == [w \in Widgets |-> e]

\* init_ui ends by disabling four buttons; the start-up code disables the
\* MusicBrainz button once more when there is no contact e-mail.
StartUpWidgets ==
    [w \in Widgets |-> w \in {"load_button", "file_list"}]

\* The first four statements of on_selection_changed: the MusicBrainz, Save
\* and Remove buttons follow "something is selected", Clear follows "the list
\* has rows".  (The later setEnabled(True) calls repeat the same values.)
SelectionWidgets(buttons, n_selected, n_rows) ==
    [buttons EXCEPT !["musicbrainz_button"] = n_selected > 0,
                    !["save_button"] = n_selected > 0,
                    !["remove_button"] = n_selected > 0,
                    !["clear_button"] = n_rows > 0]

\* on_selection_changed with the selection `sel` over the files `d`;
\* `readable` tells whether mutagen opens the single selected file.  An empty
\* selection only hides the editor; one file resets the pending art and loads
\* the editor from the file (on a read error the editor is hidden and the
\* fields keep their text); two or more reset the pending art, clear every
\* field and uncheck every box.
on_selection_changed(ui, sel, d, readable) ==
    IF Len(sel) = 0 THEN [ui EXCEPT !.editor_visible = FALSE]
    ELSE LET reset == [ui EXCEPT !.art_is_dirty = FALSE,
                                 !.current_art_data = None,
                                 !.current_art_mime = None]
         IN  IF Len(sel) = 1
             THEN IF readable
                  THEN [reset EXCEPT
                          !.fields = LoadFields(d[sel[1]]),
                          !.album_art_label =
                              load_album_art(d[sel[1]], ext_of(sel[1])),
                          !.editor_visible = TRUE]
                  ELSE [reset EXCEPT !.editor_visible = FALSE]
             ELSE [reset EXCEPT !.fields = NoFields,
                                !.checkboxes = Unchecked,
                                !.album_art_label = BatchArtText,
                                !.editor_visible = TRUE]

\* A behaviour follows one Save or Apply from the click to its report.  The
\* request remembers what the editor showed at the click.
BlankUi == [fields |-> NoFields, checkboxes |-> Unchecked,
            editor_visible |-> FALSE, current_art_data |-> None,
            current_art_mime |-> None, art_is_dirty |-> FALSE,
            album_art_label |-> NoArt]
NoRequest == [kind |-> "none", selection |-> <<>>, release |-> NoRelease,
              ui |-> BlankUi, edited |-> FALSE, checked |-> {}, events |-> 0]
Request(kind, release) ==
    [kind |-> kind, selection |-> selected, release |-> release, ui |-> Ui,
     edited |-> edited, checked |-> {d \in DOMAIN checkboxes : checkboxes[d]},
     events |-> 0]
NoOperationYet == request.kind = "none"

\* The window is open until closeEvent; only closeEvent sets the stop flag and
\* only the start of a run clears it.
WindowOpen == ~stop_requested

\* save_metadata and apply_musicbrainz_data call the file processor's methods
\* directly, so its loop runs in the thread of the caller, the GUI thread,
\* which is back in its event loop when the call returns.
EventLoopRunning == pc = "idle"

\* ------------------------------------------------- FileProcessor: batch save
\* What can happen to one file of process_and_save:
\*   ok          every statement of the try block ran
\*   unopenable  mutagen.File returned None (TypeError) or raised
\*   tags_raise  setting a key or audio.save() raised: nothing persisted
\*   art_raises  the tags were saved, _save_album_art_to_file raised
SaveFates(art_data) ==
    {"ok", "unopenable", "tags_raise"}
        \cup (IF art_data # None THEN {"art_raises"} ELSE {})

ErrorEntry(path, fate) == [file |-> basename(path), what |-> fate]
Report(count, total, errs) ==
    [saved_count |-> count, total_files |-> total, errors |-> errs]

\* The file after the try block of process_and_save met `fate`: audio.save()
\* has returned before _save_album_art_to_file is called, so a picture write
\* that raises leaves the tagged file behind.
\* Variant: a failed picture write restores the file as it was.
SavedFile_rollsBack(f, path, tags_to_save, art_data, art_mime, fate) ==
    LET tagged == [f EXCEPT !.tags = ApplyTags(f.tags, tags_to_save)] IN
    CASE fate = "ok" ->
            IF art_data # None
            THEN save_album_art_to_file(tagged, ext_of(path), art_data, art_mime)
            ELSE tagged
      [] OTHER -> f

SavedFile(f, path, tags_to_save, art_data, art_mime, fate) ==
    LET tagged == [f EXCEPT !.tags = ApplyTags(f.tags, tags_to_save)] IN
    CASE fate = "ok" ->
            IF art_data # None
            THEN save_album_art_to_file(tagged, ext_of(path), art_data, art_mime)
            ELSE tagged
      [] fate = "art_raises" -> tagged
      [] OTHER -> f

\* process_and_save up to the loop: clear the stop flag, emit (0, total).
process_and_save(file_paths, tags_to_save, art_data, art_mime) ==
    /\ stop_requested' = FALSE
    /\ job' = [kind |-> "save", file_paths |-> file_paths,
               tags_to_save |-> tags_to_save, art_data |-> art_data,
               art_mime |-> art_mime, release |-> NoRelease]
    /\ progress' = << <<0, Len(file_paths)>> >>
    /\ saved_count' = 0
    /\ errors' = <<>>
    /\ idx' = 0
    /\ attempted' = <<>>
    /\ stop_at' = <<>>
    /\ pc' = "saving"

\* for i, path in enumerate(file_paths): if self.stop_requested: break
LoopContinues_ignoresStop(i, n, stop) == i < n
LoopContinues(i, n, stop) == i < n /\ ~stop

\* except Exception as e: errors.append(...) -- the loop goes on to the next
\* file whatever happened to this one.
PcAfterFile_aborts(fate) == IF fate = "ok" THEN "saving" ELSE "finishing"
PcAfterFile(fate) == "saving"

\* self.processing_progress.emit(i + 1, len(file_paths)), after the try block.
ProgressAfter_onSuccessOnly(emitted, i, n, fate) ==
    IF fate = "ok" THEN Append(emitted, <<i + 1, n>>) ELSE emitted
ProgressAfter(emitted, i, n, fate) == Append(emitted, <<i + 1, n>>)

\* saved_count += 1, the last statement of the try block: a file counts once,
\* after its tags and its picture have both been written.
\* Variant: the counter is advanced after audio.save() and again after the
\* picture write.
CountAfter_perWrite(count, fate, art_data) ==
    IF fate = "ok" THEN count + (IF art_data # None THEN 2 ELSE 1) ELSE count

CountAfter(count, fate, art_data) ==
    IF fate = "ok" THEN count + 1 ELSE count

\* except Exception as e: errors.append(f"Error saving {basename}: {e}") --
\* one entry for a file whose try block raised, wherever it raised.
\* Variant: only a failure before audio.save() is reported.
ErrorsAfter_tagFailuresOnly(errs, path, fate) ==
    IF fate \in {"ok", "art_raises"} THEN errs
    ELSE Append(errs, ErrorEntry(path, fate))

ErrorsAfter(errs, path, fate) ==
    IF fate = "ok" THEN errs ELSE Append(errs, ErrorEntry(path, fate))

\* One iteration of the loop of process_and_save.
SaveFile ==
    /\ pc = "saving"
    /\ LoopContinues(idx, Len(job.file_paths), stop_requested)
    /\ \E fate \in SaveFates(job.art_data) :
         LET path == job.file_paths[idx + 1] IN
         /\ disk' = [disk EXCEPT ![path] =
                        SavedFile(disk[path], path, job.tags_to_save,
                                  job.art_data, job.art_mime, fate)]
         /\ saved_count' = CountAfter(saved_count, fate, job.art_data)
         /\ errors' = ErrorsAfter(errors, path, fate)
         /\ attempted' = Append(attempted,
                                [path |-> path, fate |-> fate, i |-> idx])
         /\ progress' = ProgressAfter(progress, idx, Len(job.file_paths), fate)
         /\ pc' = PcAfterFile(fate)
    /\ idx' = idx + 1
    /\ UNCHANGED << app, shell_vars, ui_vars, stop_requested, job, report, error_signal,
                    status, snapshot, stop_at, request, edited >>

\* The loop ends: the list is exhausted, or the stop flag is seen (break).
SaveLoopEnd ==
    /\ pc = "saving"
    /\ ~LoopContinues(idx, Len(job.file_paths), stop_requested)
    /\ pc' = "finishing"
    /\ UNCHANGED << app, shell_vars, disk, ui_vars, stop_requested, job, loop_vars, report,
                    error_signal, status, snapshot, stop_at, request, edited >>

\* processing_finished.emit(...) and its slot on_processing_finished: the
\* pending art is no longer dirty and on_selection_changed() runs again.
Finish ==
    /\ pc = "finishing"
    /\ report' = Append(report,
                        Report(saved_count, Len(job.file_paths), errors))
    /\ \E readable \in (IF Len(selected) = 1 THEN BOOLEAN ELSE {TRUE}) :
         SetUi(on_selection_changed([Ui EXCEPT !.art_is_dirty = FALSE],
                                    selected, disk, readable))
    /\ enabled' = SelectionWidgets(enabled, Len(selected), Len(file_list))
    /\ status' = "Saved"
    /\ pc' = "idle"
    /\ UNCHANGED << app, list_vars, lingering, file_list, contact_email, threads, dialog,
                    art_response, disk, selected, stop_requested, job, loop_vars,
                    error_signal, snapshot, stop_at, request, edited >>

\* closeEvent: processing_thread.isRunning() holds from init_threads on, so
\* the stop flag is raised.
closeEvent ==
    /\ ~stop_requested
    /\ stop_requested' = TRUE
    /\ stop_at' = IF pc \in {"saving", "applying"} /\ stop_at = <<>>
                  THEN <<idx>> ELSE stop_at
    /\ UNCHANGED << app, shell_vars, disk, ui_vars, pc, job, loop_vars, report,
                    error_signal, status, snapshot, request, edited >>

\* tags_to_save as save_metadata builds it: batch mode takes the checked
\* fields only, single mode every field.
\* Variant: every field is taken in both modes.
TagsToSave_everyField(is_batch_mode, texts, boxes) ==
    [d \in Fields |-> texts[d]]

TagsToSave(is_batch_mode, texts, boxes) ==
    IF is_batch_mode
    THEN [d \in {c \in Fields : boxes[c]} |-> texts[d]]
    ELSE [d \in Fields |-> texts[d]]

\* save_metadata: the selection, tags_to_save and, when it is dirty, the
\* pending art are handed to process_and_save.
save_metadata ==
    /\ app = "Metagify"
    /\ pc = "idle"
    /\ WindowOpen
    /\ NoOperationYet
    /\ dialog = "closed"
    /\ enabled["save_button"]
    /\ selected # <<>>
    /\ editor_visible
    /\ LET is_batch_mode == Len(selected) > 1
           tags_to_save == TagsToSave(is_batch_mode, fields, checkboxes)
           art_data == IF art_is_dirty THEN current_art_data ELSE None
           art_mime == IF art_is_dirty THEN current_art_mime ELSE None
       IN  process_and_save(selected, tags_to_save, art_data, art_mime)
    /\ request' = Request("save", NoRelease)
    /\ snapshot' = disk
    /\ UNCHANGED << app, shell_vars, disk, ui_vars, report, error_signal, status, edited >>

\* -------------------------------------------- FileProcessor: apply a release
\* text.split('-')[0]
RECURSIVE SplitFirst(_, _)
SplitFirst(text, sep) ==
    IF text = <<>> \/ Head(text) = sep THEN <<>>
    ELSE <<Head(text)>> \o SplitFirst(Tail(text), sep)

\* release_data.get('date', '').split('-')[0]
\* Variant: the first four characters of the date, text[:4].
ReleaseYear_firstFour(release) ==
    LET text == IF release.has_date THEN release.date ELSE Empty IN
    SubSeq(text, 1, IF Len(text) < 4 THEN Len(text) ELSE 4)

ReleaseYear(release) ==
    SplitFirst(IF release.has_date THEN release.date ELSE Empty, "-")

\* release_data['medium-list'][0].get('track-count', len(tracks))
\* Variant: the length of the track list, whatever the medium declares.
TotalTracks_listLength(release) == Len(release.tracks)

TotalTracks(release) ==
    IF release.has_count THEN release.count ELSE Len(release.tracks)

\* track_info.get('artist-credit-phrase', album_artist)
TrackArtist(release, track) ==
    IF track.has_artist THEN track.artist ELSE release.artist

\* The six assignments audio[key] = ... of the per-file block, track i (1-based).
TrackTags(tags, release, i) ==
    LET track == release.tracks[i] IN
    [tags EXCEPT !["title"] = <<track.title>>,
                 !["artist"] = <<TrackArtist(release, track)>>,
                 !["albumartist"] = <<release.artist>>,
                 !["album"] = <<release.title>>,
                 !["date"] = <<ReleaseYear(release)>>,
                 !["tracknumber"] =
                     <<track.number \o <<"/">> \o Str(TotalTracks(release))>>]

\* What can happen to one file of process_and_save_musicbrainz: as for a
\* batch save, plus
\*   skipped     mutagen.File returned None: `continue`
\* A file beyond the end of the track list raises at tracks[i].
ApplyFates(resized_art_data, has_track) ==
    {"skipped", "unopenable", "tags_raise"}
        \cup (IF has_track THEN {"ok"} ELSE {})
        \cup (IF has_track /\ resized_art_data \notin {None, EmptyBytes}
              THEN {"art_raises"} ELSE {})

\* The file after the inner try block met `fate`.
AppliedFile(f, path, release, i, resized_art_data, art_mime, fate) ==
    LET tagged == [f EXCEPT !.tags = TrackTags(f.tags, release, i)] IN
    CASE fate = "ok" ->
            IF resized_art_data \notin {None, EmptyBytes}
            THEN save_album_art_to_file(tagged, ext_of(path), resized_art_data,
                                        art_mime)
            ELSE tagged
      [] fate = "art_raises" -> tagged
      [] OTHER -> f

AggregatedError == [file |-> <<"*", "*">>, what |-> "MusicBrainz data application failed"]

\* on_processing_error: on_selection_changed() runs and a message box shows.
on_processing_error ==
    /\ \E readable \in (IF Len(selected) = 1 THEN BOOLEAN ELSE {TRUE}) :
          SetUi(on_selection_changed(Ui, selected, disk, readable))
    /\ enabled' = SelectionWidgets(enabled, Len(selected), Len(file_list))

\* After the outer except has recorded and signalled the aggregated error,
\* control falls through to the processing_finished emit.
\* Variant: the handler returns, and no report follows.
PcAfterPreludeError_returns == "idle"
PcAfterPreludeError == "finishing"

\* process_and_save_musicbrainz up to its loop: clear the stop flag, emit
\* (0, total), read the release-level keys and resize the art once.  A missing
\* key, or art without a MIME type, raises into the outer except: one
\* aggregated error, processing_error is emitted, and the report follows.
process_and_save_musicbrainz(file_paths, release_data, art_data, art_mime) ==
    LET has_art == art_data \notin {None, EmptyBytes}
        prelude_ok == /\ release_data.medium
                      /\ release_data.has_artist
                      /\ release_data.has_title
                      /\ has_art => art_mime # None
    IN
    /\ stop_requested' = FALSE
    /\ job' = [kind |-> "apply", file_paths |-> file_paths,
               tags_to_save |-> <<>>,
               art_data |-> IF has_art THEN Resize(art_data) ELSE None,
               art_mime |-> art_mime, release |-> release_data]
    /\ progress' = << <<0, Len(file_paths)>> >>
    /\ saved_count' = 0
    /\ idx' = 0
    /\ attempted' = <<>>
    /\ stop_at' = <<>>
    /\ IF prelude_ok
       THEN /\ errors' = <<>>
            /\ pc' = "applying"
            /\ UNCHANGED << ui_vars, enabled, error_signal >>
       ELSE /\ errors' = <<AggregatedError>>
            /\ error_signal' = error_signal + 1
            /\ on_processing_error
            /\ UNCHANGED selected
            /\ pc' = PcAfterPreludeError

\* One iteration of the loop of process_and_save_musicbrainz.  A file mutagen
\* does not recognise is passed over by `continue`: no count, no error entry,
\* no progress signal.
ApplyFile ==
    /\ pc = "applying"
    /\ LoopContinues(idx, Len(job.file_paths), stop_requested)
    /\ \E fate \in ApplyFates(job.art_data, idx < Len(job.release.tracks)) :
         LET path == job.file_paths[idx + 1] IN
         /\ disk' = [disk EXCEPT ![path] =
                        AppliedFile(disk[path], path, job.release, idx + 1,
                                    job.art_data, job.art_mime, fate)]
         /\ saved_count' = CountAfter(saved_count, fate, job.art_data)
         /\ errors' = IF fate \in {"ok", "skipped"} THEN errors
                      ELSE Append(errors, ErrorEntry(path, fate))
         /\ attempted' = Append(attempted,
                                [path |-> path, fate |-> fate, i |-> idx])
         /\ progress' = IF fate = "skipped" THEN progress
                        ELSE Append(progress, <<idx + 1, Len(job.file_paths)>>)
    /\ idx' = idx + 1
    /\ UNCHANGED << app, shell_vars, ui_vars, stop_requested, pc, job, report,
                    error_signal, status, snapshot, stop_at, request, edited >>

ApplyLoopEnd ==
    /\ pc = "applying"
    /\ ~LoopContinues(idx, Len(job.file_paths), stop_requested)
    /\ pc' = "finishing"
    /\ UNCHANGED << app, shell_vars, disk, ui_vars, stop_requested, job, loop_vars, report,
                    error_signal, status, snapshot, stop_at, request, edited >>

\* len(selected_paths) != len(tracks) is the mismatch.
TrackCountMatches_atMost(n_selected, n_tracks) == n_selected <= n_tracks
TrackCountMatches(n_selected, n_tracks) == n_selected = n_tracks

TrackMismatch == "Track Mismatch"
UnhandledKeyError == "KeyError"

\* Metagify.apply_musicbrainz_data, the slot the release fetch ends in: the
\* selection is read now; a release without a medium/track list raises out of
\* the slot; a track-count mismatch warns and returns; otherwise the selected
\* paths are sorted by basename and handed to process_and_save_musicbrainz.
Metagify_apply_musicbrainz_data(release, art_data, art_mime) ==
    /\ app = "Metagify"
    /\ pc = "idle"
    /\ WindowOpen
    /\ NoOperationYet
    /\ snapshot' = disk
    /\ request' = Request("Metagify.apply", release)
    /\ UNCHANGED << app, list_vars, lingering, file_list, contact_email, dialog, disk, report,
                    edited >>
    /\ IF ~release.medium
       THEN /\ status' = UnhandledKeyError
            /\ UNCHANGED << ui_vars, enabled, stop_requested, pc, job,
                            loop_vars, error_signal, stop_at >>
       ELSE IF ~TrackCountMatches(Len(selected), Len(release.tracks))
       THEN /\ status' = TrackMismatch
            /\ UNCHANGED << ui_vars, enabled, stop_requested, pc, job,
                            loop_vars, error_signal, stop_at >>
       ELSE /\ status' = "Applying metadata. Please wait..."
            /\ process_and_save_musicbrainz(SortByBasename(selected), release,
                                            art_data, art_mime)

\* ------------------------------------------------- Metagify: release fetch
\* The releases the remote service may return: zero to MaxTracks tracks, with
\* or without a declared track count and per-track artists; and payloads
\* without a medium list or without a title.
Releases ==
    { MakeRelease(n, TRUE, TRUE, TRUE, TRUE, Date2020, hc, n + 1, ta)
        : n \in 0..MaxTracks, hc \in BOOLEAN, ta \in BOOLEAN }
    \cup { MakeRelease(n, m, m, ~m, TRUE, Date2020, FALSE, 0, TRUE)
            : n \in 0..MaxTracks, m \in BOOLEAN }

FetchedArt ==
    { [data |-> None, mime |-> None], [data |-> "P1", mime |-> "image/jpeg"] }

\* run_in_thread: a new QThread runs target_fn; its Worker emits finished
\* (to on_success) or error (to on_error) when the function is done.
\* The threads in flight form a bag: they deliver in any order.
\* For a load thread `files` are the files to load; for a fetch thread they
\* are a history: the selection when the fetch was started.
Thread(target, files) == [target |-> target, files |-> files]
Started(t) == threads (+) SetToBag({t})
Delivered(t) == threads (-) SetToBag({t})
InFlight(target) == {t \in BagToSet(threads) : t.target = target}

\* run_in_thread connects worker.finished to thread.quit and to
\* worker.deleteLater; worker.error is connected to on_error alone, so a
\* thread whose function raised is not told to quit: it lingers.
Signals == {"finished", "error"}
ToldToQuit(signal) == signal = "finished"
LingeringAfter(n, signal) == IF ToldToQuit(signal) THEN n ELSE n + 1

\* What the cover-art request can meet: a 200 response with the image, an
\* HTTP error status (raise_for_status raises HTTPError), or no response at
\* all (a timeout after 15 s, a refused connection).  Both failures are
\* RequestExceptions.
ArtResponses == {"ok", "http_error", "timeout"}
ErrorPage == "E404"

\* _fetch_release_and_art, once the release itself has been fetched: the
\* art and its MIME type stay None unless the art request went through.
\* Variant: without raise_for_status() the body of an error response is taken
\* for the image.
fetch_release_and_art_withoutStatusCheck(release, response) ==
    CASE response = "ok" -> <<release, "P1", "image/jpeg">>
      [] response = "http_error" -> <<release, ErrorPage, "image/jpeg">>
      [] OTHER -> <<release, None, None>>

fetch_release_and_art(release, response) ==
    IF response = "ok" THEN <<release, "P1", "image/jpeg">>
    ELSE <<release, None, None>>

\* The fetch thread delivers `finished`: apply_musicbrainz_data(data) runs in
\* the GUI thread with what _fetch_release_and_art returned.
FetchSucceeded(release, response) ==
    /\ EventLoopRunning
    /\ \E t \in InFlight("fetch") : threads' = Delivered(t)
    /\ art_response' = response
    /\ LET data == fetch_release_and_art(release, response) IN
       Metagify_apply_musicbrainz_data(data[1], data[2], data[3])

\* musicbrainzngs.get_release_by_id raised: the thread delivers `error` and
\* show_network_error reports it.
FetchFailed ==
    /\ EventLoopRunning
    /\ WindowOpen
    /\ NoOperationYet
    /\ \E t \in InFlight("fetch") : threads' = Delivered(t)
    /\ lingering < MaxLingering
    /\ lingering' = LingeringAfter(lingering, "error")
    /\ status' = "Network error."
    /\ UNCHANGED << app, list_vars, file_list, enabled, contact_email, dialog,
                    art_response, disk, ui_vars, stop_requested, pc, job,
                    loop_vars, report, error_signal, snapshot, stop_at,
                    request, edited >>

\* ------------------------------------------------------ Metatag: the editor
\* self.tags_to_edit and get_mutagen_key.
tags_to_edit ==
    << "Title", "Artist", "Album", "Album Artist", "Genre", "Year", "Track",
       "Comment" >>
Metatag_KeyOrder ==
    << "title", "artist", "album", "albumartist", "genre", "date",
       "tracknumber", "comment" >>
Metatag_Fields == {tags_to_edit[i] : i \in 1..Len(tags_to_edit)}
get_mutagen_key ==
    [d \in Metatag_Fields |->
        Metatag_KeyOrder[CHOOSE i \in 1..Len(tags_to_edit) : tags_to_edit[i] = d]]

Metatag_NoFields == [d \in Metatag_Fields |-> Empty]
Metatag_Unchecked == [d \in Metatag_Fields |-> FALSE]
Metatag_BatchArtText == "Album art unavailable in batch mode"

\* Metatag.update_editor_for_single: audio.get(key, [''])[0] for each field.
Metatag_LoadFields(f) ==
    [d \in Metatag_Fields |-> FirstValue(f, get_mutagen_key[d])]

\* Metatag.load_album_art: the same three lookups, its own label texts.
Metatag_load_album_art(f, ext) ==
    LET shown == load_album_art(f, ext) IN
    CASE shown = NoArt -> "No album art"
      [] shown = ErrorLoadingArt -> "Error loading art"
      [] OTHER -> shown

\* Metatag reads the path of a row from files_data[row].  `selected` lists
\* the selected rows by the files they show; the program resolves each to
\* whatever files_data holds under its row number.
RowOf(p) == CHOOSE r \in 1..Len(file_list) : file_list[r] = p
Metatag_paths(sel) == [i \in 1..Len(sel) |-> files_data[RowOf(sel[i])]]

\* Metatag lists the selected rows in ascending order:
\* sorted(list(set(index.row() for index in selectedIndexes()))).
InRowOrder(sel) == sel = SelectSeq(file_list, LAMBDA p : p \in Rows(sel))

\* Metatag.on_selection_changed: no row hides the editor; one row resets the
\* pending art and loads the editor (a read error leaves the fields as they
\* are, the editor stays visible); several rows clear the fields and uncheck
\* the boxes, and leave the pending art alone.
Metatag_on_selection_changed(ui, sel, d, readable) ==
    IF Len(sel) = 0 THEN [ui EXCEPT !.editor_visible = FALSE]
    ELSE IF Len(sel) = 1
    THEN LET reset == [ui EXCEPT !.art_is_dirty = FALSE,
                                 !.current_art_data = None,
                                 !.editor_visible = TRUE]
         IN  IF readable
             THEN [reset EXCEPT
                     !.fields = Metatag_LoadFields(d[sel[1]]),
                     !.album_art_label =
                         Metatag_load_album_art(d[sel[1]], ext_of(sel[1]))]
             ELSE reset
    ELSE [ui EXCEPT !.fields = Metatag_NoFields,
                    !.checkboxes = Metatag_Unchecked,
                    !.album_art_label = Metatag_BatchArtText,
                    !.editor_visible = TRUE]

\* ------------------------------------------------------------ user input
\* The fields the user types into and ticks, the texts typed, the image picked.
EditableFields == {"Title", "Artist"}
TypedTexts == {Empty, TX}
PickedImages == {"P1"}

\* Metatag.save_metadata calls QApplication.processEvents() at the end of each
\* iteration that did not `continue`: typing and ticking that the user did in
\* the meantime are handled there, between two files.
InsideProcessEvents ==
    /\ pc = "mt_saving"
    /\ attempted # <<>>
    /\ attempted[Len(attempted)].fate # "skipped"
    /\ request.events < MaxEvents

UserIdle == pc = "idle" /\ WindowOpen /\ NoOperationYet

\* What the running request has seen: one more event, and the boxes ticked.
Handled(ticked) ==
    request' = IF pc = "idle" THEN request
               ELSE [request EXCEPT !.events = @ + 1,
                                    !.checked = @ \cup ticked]

\* itemSelectionChanged: the user selects the files `sel`.
SelectFiles ==
    /\ UserIdle
    /\ dialog = "closed"
    /\ enabled["file_list"]
    /\ \E sel \in InjSeqs(Rows(file_list), MaxBatch) :
         /\ sel # selected
         /\ selected' = sel
         /\ \E readable \in (IF Len(sel) = 1 THEN BOOLEAN ELSE {TRUE}) :
              SetUi(IF app = "Metagify"
                    THEN on_selection_changed(Ui, sel, disk, readable)
                    ELSE Metatag_on_selection_changed(Ui, Metatag_paths(sel),
                                                      disk, readable))
         /\ enabled' = IF app = "Metagify"
                        THEN SelectionWidgets(enabled, Len(sel), Len(file_list))
                        ELSE enabled
    /\ edited' = FALSE
    /\ UNCHANGED << app, list_vars, lingering, file_list, contact_email, threads, dialog,
                    art_response, disk, stop_requested, pc, job, loop_vars, report,
                    error_signal, status, snapshot, stop_at, request >>

\* The user replaces the text of one field.
EditField ==
    /\ UserIdle \/ InsideProcessEvents
    /\ editor_visible
    /\ \E d \in EditableFields, text \in TypedTexts :
         /\ text # fields[d]
         /\ fields' = [fields EXCEPT ![d] = text]
    /\ edited' = TRUE
    /\ Handled({})
    /\ UNCHANGED << app, shell_vars, disk, selected, checkboxes, editor_visible,
                    current_art_data, current_art_mime, art_is_dirty,
                    album_art_label, stop_requested, pc, job, loop_vars, report,
                    error_signal, status, snapshot, stop_at >>

\* The user ticks or unticks one inclusion checkbox (shown in batch mode).
ToggleCheckbox ==
    /\ UserIdle \/ InsideProcessEvents
    /\ editor_visible
    /\ Len(selected) > 1
    /\ \E d \in EditableFields :
         /\ checkboxes' = [checkboxes EXCEPT ![d] = ~checkboxes[d]]
         /\ Handled(IF checkboxes[d] THEN {} ELSE {d})
    /\ UNCHANGED << app, shell_vars, disk, selected, fields, editor_visible,
                    current_art_data, current_art_mime, art_is_dirty,
                    album_art_label, stop_requested, pc, job, loop_vars, report,
                    error_signal, status, snapshot, stop_at, edited >>

\* Metagify.change_album_art: the picked image is scaled, encoded as PNG and
\* kept as the pending art.
change_album_art ==
    /\ app = "Metagify"
    /\ UserIdle
    /\ editor_visible
    /\ \E image \in PickedImages :
         /\ current_art_data' = Resize(image)
         /\ album_art_label' = Resize(image)
    /\ current_art_mime' = "image/png"
    /\ art_is_dirty' = TRUE
    /\ UNCHANGED << app, shell_vars, disk, selected, fields, checkboxes, editor_visible,
                    stop_requested, pc, job, loop_vars, report, error_signal,
                    status, snapshot, stop_at, request, edited >>

\* Metagify.delete_album_art, confirmed: the pending art is the empty payload.
delete_album_art ==
    /\ app = "Metagify"
    /\ UserIdle
    /\ editor_visible
    /\ current_art_data' = EmptyBytes
    /\ current_art_mime' = None
    /\ art_is_dirty' = TRUE
    /\ album_art_label' = "Art will be deleted on save"
    /\ UNCHANGED << app, shell_vars, disk, selected, fields, checkboxes, editor_visible,
                    stop_requested, pc, job, loop_vars, report, error_signal,
                    status, snapshot, stop_at, request, edited >>

\* Metatag.change_album_art: the bytes of the picked file are the pending art.
\* The art buttons are shown for a single row only.
Metatag_change_album_art ==
    /\ app = "Metatag"
    /\ UserIdle
    /\ editor_visible
    /\ Len(selected) = 1
    /\ \E image \in PickedImages :
         /\ current_art_data' = image
         /\ album_art_label' = image
    /\ art_is_dirty' = TRUE
    /\ UNCHANGED << app, shell_vars, disk, selected, fields, checkboxes, editor_visible,
                    current_art_mime, stop_requested, pc, job, loop_vars,
                    report, error_signal, status, snapshot, stop_at, request,
                    edited >>

\* Metatag.delete_album_art, confirmed.
Metatag_delete_album_art ==
    /\ app = "Metatag"
    /\ UserIdle
    /\ editor_visible
    /\ Len(selected) = 1
    /\ current_art_data' = EmptyBytes
    /\ art_is_dirty' = TRUE
    /\ album_art_label' = "Art deleted"
    /\ UNCHANGED << app, shell_vars, disk, selected, fields, checkboxes, editor_visible,
                    current_art_mime, stop_requested, pc, job, loop_vars,
                    report, error_signal, status, snapshot, stop_at, request,
                    edited >>

\* ------------------------------------------------------- Metatag: the save
\* for tag, field in self.fields.items(): if is_single_mode or checked: ...
RECURSIVE Metatag_ApplyTagsFrom(_, _, _, _, _)
Metatag_ApplyTagsFrom(tags, is_single_mode, texts, boxes, i) ==
    IF i > Len(tags_to_edit) THEN tags
    ELSE LET tag == tags_to_edit[i] IN
         Metatag_ApplyTagsFrom(
            IF is_single_mode \/ boxes[tag]
            THEN SetTag(tags, get_mutagen_key[tag], texts[tag])
            ELSE tags,
            is_single_mode, texts, boxes, i + 1)

\* What can happen to one file of Metatag.save_metadata: as for FileProcessor,
\* with `skipped` for a file mutagen does not recognise (`continue`).
Metatag_SaveFates(writes_art) ==
    {"ok", "skipped", "unopenable", "tags_raise"}
        \cup (IF writes_art THEN {"art_raises"} ELSE {})

\* The file after the try block of Metatag.save_metadata met `fate`.
Metatag_SavedFile(f, path, is_single_mode, texts, boxes, writes_art, art_data, fate) ==
    LET tagged == [f EXCEPT !.tags =
                      Metatag_ApplyTagsFrom(f.tags, is_single_mode, texts,
                                            boxes, 1)]
    IN  CASE fate = "ok" ->
                IF writes_art
                THEN Metatag_save_album_art_to_file(tagged, ext_of(path), art_data)
                ELSE tagged
          [] fate = "art_raises" -> tagged
          [] OTHER -> f

\* Metatag.save_metadata up to its loop: the selected rows are read once.
Metatag_save_metadata ==
    /\ app = "Metatag"
    /\ UserIdle
    /\ selected # <<>>
    /\ editor_visible
    /\ job' = [kind |-> "Metatag.save", file_paths |-> Metatag_paths(selected),
               tags_to_save |-> <<>>, art_data |-> None, art_mime |-> None,
               release |-> NoRelease]
    /\ progress' = << <<0, Len(selected)>> >>
    /\ saved_count' = 0
    /\ errors' = <<>>
    /\ idx' = 0
    /\ attempted' = <<>>
    /\ pc' = "mt_saving"
    /\ request' = Request("Metatag.save", NoRelease)
    /\ snapshot' = disk
    /\ UNCHANGED << app, shell_vars, disk, ui_vars, stop_requested, report, error_signal,
                    status, stop_at, edited >>

\* One iteration of the loop: the fields, the boxes and the pending art are
\* read as they are now.
Metatag_SaveFile ==
    /\ pc = "mt_saving"
    /\ idx < Len(job.file_paths)
    /\ LET path == job.file_paths[idx + 1]
           is_single_mode == Len(job.file_paths) = 1
           writes_art == is_single_mode /\ art_is_dirty
       IN  \E fate \in Metatag_SaveFates(writes_art) :
             /\ disk' = [disk EXCEPT ![path] =
                            Metatag_SavedFile(disk[path], path, is_single_mode,
                                              fields, checkboxes, writes_art,
                                              current_art_data, fate)]
             /\ saved_count' = IF fate = "ok" THEN saved_count + 1
                               ELSE saved_count
             /\ errors' = IF fate \in {"ok", "skipped"} THEN errors
                          ELSE Append(errors, ErrorEntry(path, fate))
             /\ attempted' = Append(attempted,
                                    [path |-> path, fate |-> fate, i |-> idx])
             /\ progress' = IF fate = "skipped" THEN progress
                            ELSE Append(progress, <<idx + 1, Len(job.file_paths)>>)
    /\ idx' = idx + 1
    /\ UNCHANGED << app, shell_vars, ui_vars, stop_requested, pc, job, report,
                    error_signal, status, snapshot, stop_at, request, edited >>

\* After the loop: in single mode the pending art is no longer dirty.
Metatag_SaveEnd ==
    /\ pc = "mt_saving"
    /\ idx = Len(job.file_paths)
    /\ art_is_dirty' = IF Len(job.file_paths) = 1 THEN FALSE ELSE art_is_dirty
    /\ status' = "Save complete!"
    /\ pc' = "idle"
    /\ UNCHANGED << app, shell_vars, disk, selected, fields, checkboxes, editor_visible,
                    current_art_data, current_art_mime, album_art_label,
                    stop_requested, job, loop_vars, report, error_signal,
                    snapshot, stop_at, request, edited >>

\* ------------------------------------------------ Metatag: apply a release
\* Metatag's per-file block: the track's own 'artist-credit-phrase' is read
\* with [], and the year is release['date'].split('-')[0] or ''.
Metatag_TrackTags(tags, release, i) ==
    LET track == release.tracks[i] IN
    [tags EXCEPT !["title"] = <<track.title>>,
                 !["artist"] = <<track.artist>>,
                 !["albumartist"] = <<release.artist>>,
                 !["album"] = <<release.title>>,
                 !["date"] = <<ReleaseYear(release)>>,
                 !["tracknumber"] =
                     <<track.number \o <<"/">> \o Str(TotalTracks(release))>>]

\* A track without its own artist credit raises KeyError before the save:
\*   key_error   track_info['artist-credit-phrase'] raised, nothing persisted
Metatag_ApplyFates(art_data, track) ==
    {"skipped", "unopenable", "tags_raise"}
        \cup (IF track.has_artist THEN {"ok"} ELSE {"key_error"})
        \cup (IF track.has_artist /\ art_data \notin {None, EmptyBytes}
              THEN {"art_raises"} ELSE {})

Metatag_AppliedFile(f, path, release, i, art_data, fate) ==
    LET tagged == [f EXCEPT !.tags = Metatag_TrackTags(f.tags, release, i)] IN
    CASE fate = "ok" ->
            IF art_data \notin {None, EmptyBytes}
            THEN Metatag_save_album_art_to_file(tagged, ext_of(path), art_data)
            ELSE tagged
      [] fate = "art_raises" -> tagged
      [] OTHER -> f

\* What can happen to the first n files, one fate each.
RECURSIVE Metatag_FateLists(_, _, _)
Metatag_FateLists(art_data, release, n) ==
    IF n = 0 THEN {<<>>}
    ELSE { Append(q, fate) :
             q \in Metatag_FateLists(art_data, release, n - 1),
             fate \in Metatag_ApplyFates(art_data, release.tracks[n]) }

RECURSIVE Metatag_apply_loop(_, _, _, _, _, _)
Metatag_apply_loop(d, paths, release, art_data, fates, i) ==
    IF i > Len(paths) THEN d
    ELSE Metatag_apply_loop(
            [d EXCEPT ![paths[i]] =
                Metatag_AppliedFile(d[paths[i]], paths[i], release, i,
                                    art_data, fates[i])],
            paths, release, art_data, fates, i + 1)

\* Metatag.apply_musicbrainz_data: one handler, the whole loop inside it.
\* `selected` holds the paths of the selected rows in ascending row order.
\* Afterwards the selection is cleared and the first of those rows selected,
\* and on_selection_changed runs for each of the two changes.  `attempted`
\* keeps what happened to each file.
Metatag_apply_musicbrainz_data(release, art_data) ==
    /\ app = "Metatag"
    /\ pc = "idle"
    /\ WindowOpen
    /\ NoOperationYet
    /\ snapshot' = disk
    /\ request' = Request("Metatag.apply", release)
    /\ UNCHANGED << app, shell_vars, edited, stop_requested, pc, job, idx,
                    saved_count, errors, progress, report, error_signal,
                    stop_at >>
    /\ IF ~release.medium
       THEN /\ status' = UnhandledKeyError
            /\ UNCHANGED << disk, ui_vars, attempted >>
       ELSE IF Len(selected) # Len(release.tracks)
       THEN /\ status' = TrackMismatch
            /\ UNCHANGED << disk, ui_vars, attempted >>
       ELSE IF ~release.has_artist \/ ~release.has_title
       THEN /\ status' = UnhandledKeyError
            /\ UNCHANGED << disk, ui_vars, attempted >>
       ELSE /\ LET paths == Metatag_paths(selected) IN
               \E fates \in Metatag_FateLists(art_data, release, Len(paths)) :
                 /\ disk' = Metatag_apply_loop(disk, paths, release, art_data,
                                               fates, 1)
                 /\ attempted' = [i \in 1..Len(paths) |->
                                    [path |-> paths[i], fate |-> fates[i],
                                     i |-> i - 1]]
            /\ status' = "Metadata applied!"
            /\ IF selected = <<>>
               THEN UNCHANGED ui_vars
               ELSE /\ selected' = <<selected[1]>>
                    /\ \E readable \in BOOLEAN :
                         SetUi(Metatag_on_selection_changed(
                                  Metatag_on_selection_changed(Ui, <<>>, disk',
                                                               TRUE),
                                  Metatag_paths(selected'), disk', readable))

\* --------------------------------------------------- Metatag: the file table
\* The loop of add_files_to_table: a file whose path some entry of files_data
\* already has is passed over; any other gets the next row number.
RECURSIVE AddRows(_, _)
AddRows(data, files) ==
    IF files = <<>> THEN data
    ELSE AddRows(IF Head(files) \in Rows(data) THEN data
                 ELSE Append(data, Head(files)),
                 Tail(files))

\* The selected rows move with their items when the table is sorted:
\* afterwards they are listed in the ascending order of their new rows.
Reselect(rows, sel) == SelectSeq(rows, LAMBDA p : p \in Rows(sel))

\* Metatag.add_files_to_table: sorting is switched off, the new rows are
\* appended, and setSortingEnabled(True) sorts the table by the header's sort
\* indicator.  files_data keeps the row numbers of the insertion.
Metatag_add_files_to_table(files) ==
    LET data == AddRows(files_data, files)
        added == SubSeq(data, Len(files_data) + 1, Len(data))
    IN  /\ files_data' = data
        /\ file_list' = sortByColumn(file_list \o added, sort_order)
        /\ selected' = Reselect(file_list', selected)
        /\ status' = "file(s) added."
        /\ UNCHANGED << app, Metagify_file_paths, sort_order, lingering,
                        enabled, contact_email, threads, dialog, art_response,
                        disk, fields, checkboxes, editor_visible,
                        current_art_data, current_art_mime, art_is_dirty,
                        album_art_label, stop_requested, pc, job, loop_vars,
                        report, error_signal, snapshot, stop_at, request,
                        edited >>

\* What a user of Metatag may offer at once.
TableOffers ==
    { << Path("d1", "b", ".mp3") >>,
      << Path("d1", "a", ".flac"), Path("d1", "c", ".m4a") >>,
      << Path("d1", "d", ".ogg"), Path("d1", "d", ".ogg") >> }

Metatag_open_file_dialog ==
    /\ app = "Metatag"
    /\ UserIdle
    /\ \E files \in TableOffers : Metatag_add_files_to_table(files)

Metatag_dropEvent ==
    /\ app = "Metatag"
    /\ UserIdle
    /\ \E urls \in TableOffers : Metatag_add_files_to_table(urls)

\* A click on the File header: the sort indicator flips and the table is
\* sorted by it.
sortIndicatorChanged ==
    /\ app = "Metatag"
    /\ UserIdle
    /\ sort_order' = (IF sort_order = Ascending THEN Descending ELSE Ascending)
    /\ file_list' = sortByColumn(file_list, sort_order')
    /\ selected' = Reselect(file_list', selected)
    /\ UNCHANGED << app, Metagify_file_paths, files_data, lingering, enabled,
                    contact_email, threads, dialog, art_response, disk, fields,
                    checkboxes, editor_visible, current_art_data,
                    current_art_mime, art_is_dirty, album_art_label,
                    stop_requested, pc, job, loop_vars, report, error_signal,
                    status, snapshot, stop_at, request, edited >>

\* ------------------------------------------------- Metagify: the main window
\* add_files_to_list: the files not yet in the list are loaded in a thread of
\* their own, with the six widgets disabled meanwhile.  (Every file offered
\* has a valid extension; with nothing new to load the handler returns.)
add_files_to_list(files) ==
    LET new_files == SelectSeq(files,
                               LAMBDA f : f \notin Rows(Metagify_file_paths)) IN
    /\ new_files # <<>>
    /\ BagCardinality(threads) < MaxThreads
    /\ status' = "Loading files..."
    /\ enabled' = set_ui_enabled(FALSE)
    /\ threads' = Started(Thread("load", new_files))
    /\ UNCHANGED << app, list_vars, lingering, file_list, contact_email, dialog, art_response, disk,
                    ui_vars, stop_requested, pc, job, loop_vars, report,
                    error_signal, snapshot, stop_at, request, edited >>

\* What a user may offer at once: one file, two files, or one file twice.
Offered ==
    { << Path("d1", "b", ".mp3") >>,
      << Path("d1", "a", ".mp3"), Path("d1", "b", ".mp3") >>,
      << Path("d1", "b", ".mp3"), Path("d1", "b", ".mp3") >> }

\* Load Files is clicked and files are picked in the dialog.
open_file_dialog ==
    /\ UserIdle
    /\ dialog = "closed"
    /\ enabled["load_button"]
    /\ \E files \in Offered : add_files_to_list(files)

\* Files are dropped on the window: the window accepts drops whatever the
\* state of its widgets.
dropEvent ==
    /\ UserIdle
    /\ dialog = "closed"
    /\ \E urls \in Offered : add_files_to_list(urls)

\* The load thread delivers `finished`: on_files_loaded adds a row for each
\* file mutagen could open (`failed` are the others: none, or the first of
\* the batch), enables the six widgets and then sets Clear, Remove and Save by
\* "the list has rows".
on_files_loaded ==
    /\ EventLoopRunning
    /\ WindowOpen
    /\ NoOperationYet
    /\ \E t \in InFlight("load") :
         \E failed \in {{}, {t.files[1]}} :
           LET rows == file_list \o SelectSeq(t.files,
                                              LAMBDA f : f \notin failed)
           IN  /\ file_list' = rows
               /\ Metagify_file_paths' =
                     Metagify_file_paths \o SelectSeq(t.files,
                                                      LAMBDA f : f \notin failed)
               /\ enabled' = [w \in Widgets |->
                                IF w \in {"clear_button", "remove_button",
                                          "save_button"}
                                THEN Len(rows) > 0 ELSE TRUE]
               /\ threads' = Delivered(t)
    /\ status' = "file(s) added."
    /\ UNCHANGED << app, files_data, sort_order, lingering, contact_email,
                    dialog, art_response, disk, ui_vars,
                    stop_requested, pc, job, loop_vars, report, error_signal,
                    snapshot, stop_at, request, edited >>

\* clear_file_list, confirmed: the list is emptied, the editor hidden and the
\* four buttons disabled.
clear_file_list ==
    /\ UserIdle
    /\ dialog = "closed"
    /\ enabled["clear_button"]
    /\ file_list' = <<>>
    /\ Metagify_file_paths' = <<>>
    /\ selected' = <<>>
    /\ editor_visible' = FALSE
    /\ enabled' = [w \in Widgets |->
                     IF w \in {"load_button", "file_list"} THEN enabled[w]
                     ELSE FALSE]
    /\ status' = "File list cleared."
    /\ UNCHANGED << app, files_data, sort_order, lingering, contact_email,
                    threads, dialog, art_response, disk,
                    fields, checkboxes, current_art_data, current_art_mime,
                    art_is_dirty, album_art_label, stop_requested, pc, job,
                    loop_vars, report, error_signal, snapshot, stop_at,
                    request, edited >>

\* list.remove(x) for each x of xs that is in the list: the first occurrence
\* goes.
RECURSIVE RemoveFirst(_, _)
RemoveFirst(q, x) ==
    IF q = <<>> THEN <<>>
    ELSE IF Head(q) = x THEN Tail(q)
    ELSE <<Head(q)>> \o RemoveFirst(Tail(q), x)

RECURSIVE RemoveEach(_, _)
RemoveEach(q, xs) ==
    IF xs = <<>> THEN q ELSE RemoveEach(RemoveFirst(q, Head(xs)), Tail(xs))

\* remove_selected_files, confirmed: each selected path is removed from
\* file_paths, each selected item is taken from the widget (of two rows that
\* show one path the upper one is the selected one), and
\* on_selection_changed() runs on the selection that is left: none.
remove_selected_files ==
    /\ UserIdle
    /\ dialog = "closed"
    /\ enabled["remove_button"]
    /\ selected # <<>>
    /\ Metagify_file_paths' = RemoveEach(Metagify_file_paths, selected)
    /\ file_list' = RemoveEach(file_list, selected)
    /\ selected' = <<>>
    /\ SetUi(on_selection_changed(Ui, <<>>, disk, TRUE))
    /\ enabled' = SelectionWidgets(enabled, 0, Len(file_list'))
    /\ status' = "file(s) removed from the list."
    /\ edited' = FALSE
    /\ UNCHANGED << app, files_data, sort_order, lingering, contact_email,
                    threads, dialog, art_response, disk, stop_requested, pc,
                    job, loop_vars, report, error_signal, snapshot, stop_at,
                    request >>

\* list.pop(source_row) followed by list.insert(target_row, item); rows from 1.
Move(q, source_row, target_row) ==
    LET item == q[source_row]
        rest == [i \in 1..(Len(q) - 1) |->
                    IF i < source_row THEN q[i] ELSE q[i + 1]]
    IN  [i \in 1..Len(q) |->
            IF i < target_row THEN rest[i]
            ELSE IF i = target_row THEN item ELSE rest[i - 1]]

\* on_item_moved(source_row, target_row): what it would make of file_paths.
on_item_moved(paths, source_row, target_row) ==
    IF source_row # target_row THEN Move(paths, source_row, target_row)
    ELSE paths

\* The user drags a row of file_list to another position
\* (QAbstractItemView.InternalMove): the widget moves the row.  No signal of
\* the widget or of its model is connected to on_item_moved, so file_paths
\* stays as it is.
InternalMove ==
    /\ UserIdle
    /\ dialog = "closed"
    /\ enabled["file_list"]
    /\ \E source_row, target_row \in 1..Len(file_list) :
         /\ source_row # target_row
         /\ file_list' = Move(file_list, source_row, target_row)
    /\ UNCHANGED << app, list_vars, lingering, enabled, contact_email,
                    threads, dialog, art_response, disk, ui_vars,
                    stop_requested, pc, job, loop_vars, report, error_signal,
                    status, snapshot, stop_at, request, edited >>

\* SearchDialog.search: the query runs in a thread of the dialog.
StartSearch == threads' = Started(Thread("search", <<>>))

\* search_musicbrainz: with a selection, the dialog opens; when the first
\* selected file can be read and has an (album) artist or an album, the search
\* is started at once with them.  Then the dialog runs modally.
search_musicbrainz ==
    /\ UserIdle
    /\ dialog = "closed"
    /\ enabled["musicbrainz_button"]
    /\ selected # <<>>
    /\ \E readable \in BOOLEAN :
         LET f == disk[selected[1]]
             artist == IF HasKey(f, "albumartist")
                       THEN FirstValue(f, "albumartist")
                       ELSE FirstValue(f, "artist")
             album == FirstValue(f, "album")
         IN  IF readable /\ (Truthy(artist) \/ Truthy(album))
             THEN BagCardinality(threads) < MaxThreads /\ StartSearch
             ELSE UNCHANGED threads
    /\ dialog' = "open"
    /\ UNCHANGED << app, list_vars, lingering, file_list, enabled, contact_email, art_response,
                    disk, ui_vars, stop_requested, pc, job, loop_vars, report,
                    error_signal, status, snapshot, stop_at, request, edited >>

\* The Search button of the dialog, with a query typed in.
SearchDialog_search ==
    /\ UserIdle
    /\ dialog # "closed"
    /\ BagCardinality(threads) < MaxThreads
    /\ StartSearch
    /\ dialog' = "open"
    /\ UNCHANGED << app, list_vars, lingering, file_list, enabled, contact_email, art_response,
                    disk, ui_vars, stop_requested, pc, job, loop_vars, report,
                    error_signal, status, snapshot, stop_at, request, edited >>

\* The search thread delivers: `finished` lists the releases found (some
\* are), `error` shows a message box.  Without set_useragent, which start-up
\* calls only with a contact e-mail, musicbrainzngs raises before any request.
SearchFinished ==
    /\ EventLoopRunning
    /\ WindowOpen
    /\ NoOperationYet
    /\ \E t \in InFlight("search") : threads' = Delivered(t)
    /\ \E signal \in (IF contact_email = None THEN {"error"} ELSE Signals),
          found \in BOOLEAN :
         /\ signal = "error" => ~found /\ lingering < MaxLingering
         /\ dialog' = IF dialog = "closed" THEN "closed"
                      ELSE IF found THEN "results" ELSE "open"
         /\ lingering' = LingeringAfter(lingering, signal)
    /\ UNCHANGED << app, list_vars, file_list, enabled, contact_email, art_response,
                    disk, ui_vars, stop_requested, pc, job, loop_vars, report,
                    error_signal, status, snapshot, stop_at, request, edited >>

\* fetch_release_data: the release and its art are fetched in a thread; no
\* widget is disabled meanwhile.
fetch_release_data ==
    /\ status' = "Fetching release data from MusicBrainz..."
    /\ threads' = Started(Thread("fetch", selected))

\* The dialog is accepted on a listed release: it closes and the release is
\* fetched.
SearchDialog_accept ==
    /\ UserIdle
    /\ dialog = "results"
    /\ BagCardinality(threads) < MaxThreads
    /\ dialog' = "closed"
    /\ fetch_release_data
    /\ UNCHANGED << app, list_vars, lingering, file_list, enabled, contact_email, art_response,
                    disk, ui_vars, stop_requested, pc, job, loop_vars, report,
                    error_signal, snapshot, stop_at, request, edited >>

\* The dialog is dismissed, or accepted on a row that is not a release.
SearchDialog_reject ==
    /\ UserIdle
    /\ dialog # "closed"
    /\ dialog' = "closed"
    /\ UNCHANGED << app, list_vars, lingering, file_list, enabled, contact_email, threads,
                    art_response, disk, ui_vars, stop_requested, pc, job,
                    loop_vars, report, error_signal, status, snapshot, stop_at,
                    request, edited >>

\* The window's close button: Qt delivers the close event from the event
\* loop of the GUI thread.
QCloseEvent == EventLoopRunning /\ closeEvent

\* ------------------------------------------------------------------- Spec
\* The batch save engine.  The user has selected files and prepared an edit
\* (texts, checkboxes, pending art); Save is clicked, the loop runs file by
\* file, and the stop flag may be raised at any file boundary.
EditScenarios ==
    { [fields |-> [NoFields EXCEPT !["Title"] = t, !["Artist"] = TY],
       checkboxes |-> [Unchecked EXCEPT !["Title"] = c]]
      : t \in {Empty, TX}, c \in BOOLEAN }

ArtScenarios ==
    { [dirty |-> FALSE, data |-> None, mime |-> None],
      [dirty |-> TRUE, data |-> EmptyBytes, mime |-> None],
      [dirty |-> TRUE, data |-> "P1", mime |-> "image/png"] }

\* The files `paths` have been loaded and `selected` picked among them: the
\* widgets are as on_files_loaded and then on_selection_changed leave them.
ContactEmail == "user@example.org"
InitLoaded(paths) ==
    /\ sort_order = Descending
    /\ file_list = (IF app = "Metagify" THEN Listed(paths)
                    ELSE sortByColumn(Listed(paths), sort_order))
    /\ Metagify_file_paths = (IF app = "Metagify" THEN file_list ELSE <<>>)
    /\ files_data = (IF app = "Metatag" THEN file_list ELSE <<>>)
    /\ lingering = 0
    /\ enabled = (IF selected = <<>> THEN set_ui_enabled(TRUE)
                  ELSE SelectionWidgets(set_ui_enabled(TRUE), Len(selected),
                                        Cardinality(paths)))
    /\ contact_email = ContactEmail

InitProcessor ==
    /\ stop_requested = FALSE
    /\ pc = "idle"
    /\ job = [kind |-> "none", file_paths |-> <<>>, tags_to_save |-> <<>>,
              art_data |-> None, art_mime |-> None, release |-> NoRelease]
    /\ idx = 0
    /\ saved_count = 0
    /\ errors = <<>>
    /\ progress = <<>>
    /\ report = <<>>
    /\ error_signal = 0
    /\ status = "Ready"
    /\ attempted = <<>>
    /\ stop_at = <<>>
    /\ request = NoRequest
    /\ edited = FALSE
    /\ dialog = "closed"
    /\ art_response = "none"

Init ==
    /\ app = "Metagify"
    /\ disk = InitialDisk(FormatPaths, 0)
    /\ snapshot = disk
    /\ selected \in InjSeqs(FormatPaths, MaxFiles)
    /\ \E e \in EditScenarios : fields = e.fields /\ checkboxes = e.checkboxes
    /\ \E a \in ArtScenarios :
         /\ art_is_dirty = a.dirty
         /\ current_art_data = a.data
         /\ current_art_mime = a.mime
    /\ editor_visible = (selected # <<>>)
    /\ album_art_label = NoArt
    /\ InitLoaded(FormatPaths)
    /\ threads = EmptyBag
    /\ InitProcessor

Next ==
    \/ save_metadata
    \/ SaveFile
    \/ SaveLoopEnd
    \/ Finish
    \/ closeEvent

Spec == Init /\ [][Next]_vars

\* ------------------------------------------------------------ SpecRelease
\* Applying a fetched release to the current selection, in either program.
InitRelease ==
    /\ app \in {"Metagify", "Metatag"}
    /\ disk = InitialDisk(PairingPaths, 0)
    /\ snapshot = disk
    /\ selected \in InjSeqs(PairingPaths, MaxFiles)
    /\ fields = (IF app = "Metagify" THEN NoFields ELSE Metatag_NoFields)
    /\ checkboxes = (IF app = "Metagify" THEN Unchecked ELSE Metatag_Unchecked)
    /\ art_is_dirty = FALSE
    /\ current_art_data = None
    /\ current_art_mime = None
    /\ editor_visible = (selected # <<>>)
    /\ album_art_label = NoArt
    /\ InitLoaded(PairingPaths)
    /\ app = "Metatag" => InRowOrder(selected)
    /\ threads = (IF app = "Metagify" THEN SetToBag({Thread("fetch", selected)})
                  ELSE EmptyBag)
    /\ InitProcessor

NextRelease ==
    \/ \E release \in Releases, response \in ArtResponses :
          FetchSucceeded(release, response)
    \/ FetchFailed
    \/ \E release \in Releases, a \in FetchedArt :
          Metatag_apply_musicbrainz_data(release, a.data)
    \/ ApplyFile
    \/ ApplyLoopEnd
    \/ Finish
    \/ closeEvent

SpecRelease == InitRelease /\ [][NextRelease]_vars

\* -------------------------------------------------------------- SpecApply
\* Applying releases that differ in their 'date': absent, empty, a year, a
\* year and month, a full date, a year of three digits, and a date written
\* without separators.
Dates ==
    { Empty,
      << "2", "0", "2", "0" >>,
      Date2020,
      << "2", "0", "2", "0", "-", "0", "5", "-", "1", "7" >>,
      << "8", "5", "0", "-", "0", "1" >>,
      << "2", "0", "2", "0", "0", "5", "1", "7" >> }

DatedReleases ==
    { MakeRelease(n, TRUE, TRUE, TRUE, TRUE, d, FALSE, 0, TRUE)
        : n \in 1..MaxTracks, d \in Dates }
    \cup { MakeRelease(n, TRUE, TRUE, TRUE, FALSE, Empty, FALSE, 0, TRUE)
             : n \in 1..MaxTracks }

NextApply ==
    \/ \E release \in DatedReleases, response \in ArtResponses :
          FetchSucceeded(release, response)
    \/ \E release \in DatedReleases, a \in FetchedArt :
          Metatag_apply_musicbrainz_data(release, a.data)
    \/ ApplyFile
    \/ ApplyLoopEnd
    \/ Finish

SpecApply == InitRelease /\ [][NextApply]_vars

\* ------------------------------------------------------------- SpecEngine
\* Both entry points of Metagify's file processor: the first rows of the
\* list are selected and an edit is pending while a release fetch is in
\* flight; either Save is clicked or the fetched release is applied, and the
\* stop flag may be raised at any file boundary.
InitEngine ==
    /\ app = "Metagify"
    /\ disk = InitialDisk(PairingPaths, 0)
    /\ snapshot = disk
    /\ \E k \in 0..MaxBatch : selected = SubSeq(Listed(PairingPaths), 1, k)
    /\ fields = [NoFields EXCEPT !["Title"] = TX]
    /\ checkboxes = [Unchecked EXCEPT !["Title"] = TRUE]
    /\ \E a \in ArtScenarios :
         /\ art_is_dirty = a.dirty
         /\ current_art_data = a.data
         /\ current_art_mime = a.mime
    /\ editor_visible = (selected # <<>>)
    /\ album_art_label = NoArt
    /\ InitLoaded(PairingPaths)
    /\ threads = SetToBag({Thread("fetch", selected)})
    /\ InitProcessor

NextEngine ==
    \/ save_metadata
    \/ SaveFile
    \/ SaveLoopEnd
    \/ \E release \in Releases, response \in ArtResponses :
          FetchSucceeded(release, response)
    \/ ApplyFile
    \/ ApplyLoopEnd
    \/ Finish
    \/ closeEvent

SpecEngine == InitEngine /\ [][NextEngine]_vars

\* The loop and the emit after it are sequential code in a running thread:
\* once a method of the file processor has been entered, its next step is
\* eventually taken.  Clicks, deliveries and the close request are not forced.
ProcessorStep ==
    SaveFile \/ SaveLoopEnd \/ ApplyFile \/ ApplyLoopEnd \/ Finish

SpecEngineFair == SpecEngine /\ WF_vars(ProcessorStep)

\* -------------------------------------------------------------- SpecShell
\* Metagify's main window from start-up, with or without a contact e-mail:
\* files are loaded by dialog or by drop, selected, searched for and saved;
\* loads, searches and fetches run in threads of their own.
ShellReleases ==
    { MakeRelease(n, TRUE, TRUE, TRUE, TRUE, Date2020, FALSE, 0, TRUE)
        : n \in 1..MaxBatch }

InitShell ==
    /\ app = "Metagify"
    /\ disk = InitialDisk(PairingPaths, 0)
    /\ snapshot = disk
    /\ selected = <<>>
    /\ fields = NoFields
    /\ checkboxes = Unchecked
    /\ art_is_dirty = FALSE
    /\ current_art_data = None
    /\ current_art_mime = None
    /\ editor_visible = FALSE
    /\ album_art_label = NoArt
    /\ file_list = <<>>
    /\ Metagify_file_paths = <<>>
    /\ files_data = <<>>
    /\ sort_order = Descending
    /\ lingering = 0
    /\ enabled = StartUpWidgets
    /\ contact_email \in {None, ContactEmail}
    /\ threads = EmptyBag
    /\ InitProcessor

NextShell ==
    \/ open_file_dialog
    \/ dropEvent
    \/ on_files_loaded
    \/ SelectFiles
    \/ clear_file_list
    \/ search_musicbrainz
    \/ SearchDialog_search
    \/ SearchFinished
    \/ SearchDialog_accept
    \/ SearchDialog_reject
    \/ \E release \in ShellReleases, response \in ArtResponses :
          FetchSucceeded(release, response)
    \/ FetchFailed
    \/ save_metadata
    \/ SaveFile
    \/ SaveLoopEnd
    \/ ApplyFile
    \/ ApplyLoopEnd
    \/ Finish
    \/ QCloseEvent

SpecShell == InitShell /\ [][NextShell]_vars

\* ------------------------------------------------------------- SpecLookup
\* Metagify with files loaded and some selected: releases are searched for in
\* the dialog, one is fetched and applied.  Every search and every fetch runs
\* in a thread started by run_in_thread.
InitLookup ==
    /\ app = "Metagify"
    /\ disk = InitialDisk(PairingPaths, 0)
    /\ snapshot = disk
    /\ selected \in InjSeqs(PairingPaths, MaxBatch) \ {<<>>}
    /\ fields = NoFields
    /\ checkboxes = Unchecked
    /\ art_is_dirty = FALSE
    /\ current_art_data = None
    /\ current_art_mime = None
    /\ editor_visible = TRUE
    /\ album_art_label = NoArt
    /\ InitLoaded(PairingPaths)
    /\ threads = EmptyBag
    /\ InitProcessor

\* The function of a running thread ends and the event loop delivers the
\* signal its Worker emitted.
Delivery ==
    \/ SearchFinished
    \/ \E release \in ShellReleases, response \in ArtResponses :
          FetchSucceeded(release, response)
    \/ FetchFailed

NextLookup ==
    \/ search_musicbrainz
    \/ SearchDialog_search
    \/ SearchDialog_accept
    \/ SearchDialog_reject
    \/ Delivery
    \/ ApplyFile
    \/ ApplyLoopEnd
    \/ Finish

SpecLookup == InitLookup /\ [][NextLookup]_vars

\* A network call returns or raises within its timeout and the GUI event loop
\* keeps running, so a signal that can be delivered eventually is; the file
\* processor's loop is sequential code.  The user's clicks are not forced.
SpecLookupFair == SpecLookup /\ WF_vars(Delivery) /\ WF_vars(ProcessorStep)

\* --------------------------------------------------------------- SpecList
\* Metagify's file list from start-up: files are added by dialog or by drop,
\* selected, dragged to other rows, removed and cleared.
NextList ==
    \/ open_file_dialog
    \/ dropEvent
    \/ on_files_loaded
    \/ SelectFiles
    \/ InternalMove
    \/ remove_selected_files
    \/ clear_file_list

SpecList == InitShell /\ [][NextList]_vars

\* -------------------------------------------------------------- SpecTable
\* Metatag's file table from start-up: files are added by dialog or by drop,
\* the table is sorted by a click on its header, rows are selected and saved.
InitTable ==
    /\ app = "Metatag"
    /\ disk = InitialDisk(FormatPaths, 1)
    /\ snapshot = disk
    /\ selected = <<>>
    /\ fields = Metatag_NoFields
    /\ checkboxes = Metatag_Unchecked
    /\ art_is_dirty = FALSE
    /\ current_art_data = None
    /\ current_art_mime = None
    /\ editor_visible = FALSE
    /\ album_art_label = NoArt
    /\ file_list = <<>>
    /\ Metagify_file_paths = <<>>
    /\ files_data = <<>>
    /\ sort_order \in {Ascending, Descending}
    /\ lingering = 0
    /\ enabled = set_ui_enabled(TRUE)
    /\ contact_email = ContactEmail
    /\ threads = EmptyBag
    /\ InitProcessor

NextTable ==
    \/ Metatag_open_file_dialog
    \/ Metatag_dropEvent
    \/ sortIndicatorChanged
    \/ SelectFiles
    \/ Metatag_save_metadata
    \/ Metatag_SaveFile
    \/ Metatag_SaveEnd

SpecTable == InitTable /\ [][NextTable]_vars

\* --------------------------------------------------------------- SpecEdit
\* An editing session in either program: the user selects files, types, ticks
\* boxes, picks or deletes art, and saves once.
InitEdit ==
    /\ app \in {"Metagify", "Metatag"}
    /\ disk = InitialDisk(FormatPaths, 1)
    /\ snapshot = disk
    /\ selected = <<>>
    /\ fields = (IF app = "Metagify" THEN NoFields ELSE Metatag_NoFields)
    /\ checkboxes = (IF app = "Metagify" THEN Unchecked ELSE Metatag_Unchecked)
    /\ art_is_dirty = FALSE
    /\ current_art_data = None
    /\ current_art_mime = None
    /\ editor_visible = FALSE
    /\ album_art_label = NoArt
    /\ InitLoaded(FormatPaths)
    /\ threads = EmptyBag
    /\ InitProcessor

NextEdit ==
    \/ SelectFiles
    \/ EditField
    \/ ToggleCheckbox
    \/ change_album_art
    \/ delete_album_art
    \/ Metatag_change_album_art
    \/ Metatag_delete_album_art
    \/ save_metadata
    \/ SaveFile
    \/ SaveLoopEnd
    \/ Finish
    \/ Metatag_save_metadata
    \/ Metatag_SaveFile
    \/ Metatag_SaveEnd

SpecEdit == InitEdit /\ [][NextEdit]_vars

\* ------------------------------------------------- batch save: properties
\* C11: while a batch save or a release application runs, and in every report
\* it emits, the count of processed files is at most the number of files the
\* run was given.
C11_CountAtMostTotal ==
    /\ job.kind \in {"save", "apply"} => saved_count <= Len(job.file_paths)
    /\ \A k \in 1..Len(report) :
         report[k].saved_count <= report[k].total_files

\* C18: an invocation of process_and_save or process_and_save_musicbrainz
\* always comes to its end, and it ends by emitting processing_finished
\* exactly once: the emit carries saved_count, total_files and errors as they
\* stand, no progress signal follows it, and it is reached whatever files
\* fail, whether or not a stop is requested and whether or not the release
\* payload is well formed.
C18_AlwaysReportsOnce ==
    /\ [](Len(report) <= 1)
    /\ [][report' # report =>
            /\ pc = "finishing"
            /\ progress' = progress
            /\ report' = <<Report(saved_count, Len(job.file_paths), errors)>>]_vars
    /\ [][report # <<>> => progress' = progress]_vars
    /\ (job.kind # "none") ~> (pc = "idle" /\ Len(report) = 1)

\* A release without a title was applied: the report follows the aggregated
\* error.
C18_Witness ==
    /\ job.kind = "apply"
    /\ pc = "idle"
    /\ Len(report) = 1
    /\ report[1].errors = <<AggregatedError>>
    /\ error_signal = 1

\* A release with art was applied to two files and both were counted.
C11_Witness ==
    /\ job.kind = "apply"
    /\ job.art_data # None
    /\ pc = "idle"
    /\ report # <<>>
    /\ report[Len(report)].saved_count = 2
    /\ report[Len(report)].total_files = 2

total == Len(job.file_paths)
Succeeded(att) == {i \in 1..Len(att) : att[i].fate = "ok"}
FailedAttempts(att) == SelectSeq(att, LAMBDA a : a.fate # "ok")
SaveRun == job.kind = "save"
Reported == pc = "idle" /\ request.kind # "none"
LastReport == report[Len(report)]
LoopOver == pc = "finishing" \/ Reported

\* C1: a file whose save raises never aborts the batch.  In a run the stop
\* flag did not interrupt, every file of the list is attempted, in order; each
\* file that did not raise is written and counted in saved_count; each file
\* that raised left exactly one error entry naming its basename; and the
\* report carries that count and those entries.
C1_FailureNeverAbortsBatch ==
    SaveRun =>
      /\ saved_count = Cardinality(Succeeded(attempted))
      /\ errors = [i \in 1..Len(FailedAttempts(attempted)) |->
                     ErrorEntry(FailedAttempts(attempted)[i].path,
                                FailedAttempts(attempted)[i].fate)]
      /\ \A i \in Succeeded(attempted) :
            disk[attempted[i].path] =
               SavedFile(snapshot[attempted[i].path], attempted[i].path,
                         job.tags_to_save, job.art_data, job.art_mime, "ok")
      /\ (LoopOver /\ stop_at = <<>>) =>
            [i \in 1..Len(attempted) |-> attempted[i].path] = job.file_paths
      /\ Reported =>
            LastReport = Report(Cardinality(Succeeded(attempted)), total, errors)

\* Three files, the second raised, the first and the third were saved.
C1_Witness ==
    /\ SaveRun /\ Reported /\ total = 3
    /\ Len(attempted) = 3
    /\ attempted[1].fate = "ok"
    /\ attempted[2].fate # "ok"
    /\ attempted[3].fate = "ok"
    /\ LastReport.saved_count = 2
    /\ Len(LastReport.errors) = 1
    /\ LastReport.errors[1].file = basename(job.file_paths[2])

\* C2: once the stop flag is raised after k of n files (k < n), no further
\* file is attempted, and the report has saved_count = the number of those k
\* files that succeeded and total_files = n.
C2_StopHaltsBetweenFiles ==
    (SaveRun /\ stop_at # <<>> /\ stop_at[1] < total) =>
      /\ Len(attempted) = stop_at[1]
      /\ \A p \in DOMAIN disk :
            (\A i \in 1..Len(attempted) : attempted[i].path # p)
               => disk[p] = snapshot[p]
      /\ Reported =>
            /\ LastReport.saved_count = Cardinality(Succeeded(attempted))
            /\ LastReport.total_files = total

\* Stopped after file #2 of 3, no failures: saved_count = 2, total_files = 3.
C2_Witness ==
    /\ SaveRun /\ Reported /\ total = 3
    /\ stop_at = <<2>>
    /\ LastReport.saved_count = 2
    /\ LastReport.total_files = 3
    /\ LastReport.errors = <<>>

\* C12, as stated: a run of process_and_save during which the stop flag was
\* raised, at any moment between its start and its report, reports
\* saved_count < total_files.  (A stop raised once the last file has been
\* started finds nothing left to skip.)
C12_AnyStopReportsFewer ==
    (SaveRun /\ Reported /\ stop_at # <<>>) =>
        LastReport.saved_count < LastReport.total_files

\* C12, amended: a run of process_and_save in which the stop flag was raised
\* while at least one file had not been started yet (before the loop's check
\* for file k+1, k < n) reports saved_count <= k < total_files; the report
\* need not hold any error entry.
C12_StopBeforeLastFileReportsFewer ==
    (SaveRun /\ Reported /\ stop_at # <<>> /\ stop_at[1] < total) =>
        /\ LastReport.saved_count <= stop_at[1]
        /\ LastReport.saved_count < LastReport.total_files

\* Stopped after the first of two files, which was saved: 1 of 2, no errors.
C12_Witness ==
    /\ SaveRun /\ Reported /\ total = 2
    /\ stop_at = <<1>>
    /\ LastReport.saved_count = 1
    /\ LastReport.errors = <<>>

\* C10: a batch of n files emits progress (0,n), (1,n), ... in that order,
\* (0,n) before any file is touched and (i+1,n) after the i-th file whatever
\* its outcome; a run that is not stopped ends with (n,n).
C10_ProgressSequence ==
    SaveRun =>
      /\ progress = [k \in 1..(Len(attempted) + 1) |-> <<k - 1, total>>]
      /\ (LoopOver /\ stop_at = <<>>) => Len(progress) = total + 1

\* A finished, unstopped run of three files, one of which failed.
C10_Witness ==
    /\ SaveRun /\ Reported /\ total = 3 /\ stop_at = <<>>
    /\ errors # <<>>
    /\ progress = << <<0, 3>>, <<1, 3>>, <<2, 3>>, <<3, 3>> >>

\* --------------------------------------------- release application: properties
ApplyRequest == request.kind \in {"Metagify.apply", "Metatag.apply"}
Wrote(fate) == fate \in {"ok", "art_raises"}

\* C3: when a release is applied and the number of selected files differs from
\* the number of tracks of the release, no file is written (the disk is what it
\* was at the click), no run of the file processor starts, and the outcome is
\* the track-count mismatch; for every selection and release, in both programs.
C3_MismatchWritesNothing ==
    (/\ ApplyRequest
     /\ request.release.medium
     /\ Len(request.selection) # Len(request.release.tracks)) =>
        /\ disk = snapshot
        /\ status = TrackMismatch
        /\ pc = "idle"
        /\ job.kind = "none"
        /\ report = <<>>

\* Three tagged files selected, a release of two tracks: mismatch, disk intact.
C3_Witness ==
    /\ request.kind = "Metagify.apply"
    /\ Len(request.selection) = 3
    /\ Len(request.release.tracks) = 2
    /\ status = TrackMismatch
    /\ disk = snapshot

\* C13: release application treats a file as a batch save does.  Every file
\* the loop of process_and_save_musicbrainz has reached, one that mutagen
\* cannot open included, is either counted or has added exactly one error
\* entry; a progress signal (i+1, total) follows it; and the files after it
\* are attempted unless the run is stopped.
C13_ApplyPerFileSemantics ==
    (job.kind = "apply" /\ AggregatedError \notin Rows(errors)) =>
        /\ Len(attempted) = saved_count + Len(errors)
        /\ progress = [k \in 1..(Len(attempted) + 1) |-> <<k - 1, total>>]
        /\ (LoopOver /\ stop_at = <<>>) => Len(attempted) = total

\* A release payload that lacks a release-level key the application reads.
Malformed(release) ==
    ~release.medium \/ ~release.has_title \/ ~release.has_artist

\* C14: applying a malformed release (no medium list or track list, no title,
\* no artist credit) writes no file, and once the operation is over exactly
\* one aggregated error has gone out through the failure signal.  (Where the
\* payload has a track list, the selection has as many files as tracks, so
\* that the mismatch check is not what ends the operation.)
C14_MalformedReleaseOneAggregatedError ==
    ( /\ request.kind = "Metagify.apply"
      /\ Malformed(request.release)
      /\ request.release.medium =>
            Len(request.selection) = Len(request.release.tracks) )
    => /\ disk = snapshot
       /\ pc = "idle" => error_signal = 1

\* C4: when a release is applied to a selection of matching size, the files are
\* paired with the tracks in ascending basename order whatever the order of the
\* selection: the file written with track i is the one with the i-th smallest
\* basename (among equal basenames, any of them), and it carries the title and
\* number of track i.
C4_PairedByBasename ==
    (app = "Metagify" /\ job.kind = "apply") =>
      /\ Len(job.file_paths) = Len(request.selection)
      /\ \A k \in 1..Len(attempted) :
            LET p == attempted[k].path
                i == attempted[k].i + 1
                sel == {request.selection[j] : j \in 1..Len(request.selection)}
                smaller == {q \in sel : BasenameLess(q, p)}
                not_larger == {q \in sel : ~BasenameLess(p, q)}
            IN  /\ p \in sel
                /\ Cardinality(smaller) < i
                /\ i <= Cardinality(not_larger)
                /\ Wrote(attempted[k].fate) =>
                      /\ disk[p].tags["title"] = <<request.release.tracks[i].title>>
                      /\ FirstValue(disk[p], "tracknumber") =
                            request.release.tracks[i].number \o <<"/">>
                               \o Str(TotalTracks(request.release))

\* Files selected as [b.mp3, a.mp3], two tracks: track 1 is in a.mp3.
C4_Witness ==
    /\ app = "Metagify" /\ job.kind = "apply" /\ Reported
    /\ request.selection = << Path("d1", "b", ".mp3"), Path("d1", "a", ".mp3") >>
    /\ Len(request.release.tracks) = 2
    /\ disk[Path("d1", "a", ".mp3")].tags["title"] = << <<"T", "1">> >>
    /\ disk[Path("d1", "b", ".mp3")].tags["title"] = << <<"T", "2">> >>

\* The files of a release application in the order they are paired with the
\* tracks: sorted by basename in Metagify, by row in Metatag.
PairedFiles ==
    IF request.kind = "Metagify.apply" THEN job.file_paths
    ELSE request.selection

\* C19: every file a release application has written stores its track
\* number as "<number>/<total>", where total is the track count the medium
\* declares when it declares one and the length of the track list otherwise.
C19_TrackNumberOverTotal ==
    (ApplyRequest /\ request.release.medium) =>
        \A i \in 1..Len(PairedFiles) :
            LET p == PairedFiles[i]
                release == request.release
                declared == IF release.has_count THEN Str(release.count)
                            ELSE Str(Len(release.tracks))
            IN  disk[p].tags # snapshot[p].tags =>
                    disk[p].tags["tracknumber"] =
                        << release.tracks[i].number \o <<"/">> \o declared >>

\* Three tracks on a medium that declares four: the third file stores "3/4".
C19_Witness ==
    /\ ApplyRequest
    /\ request.release.has_count
    /\ Len(PairedFiles) = 3
    /\ disk[PairedFiles[3]].tags["tracknumber"] = << <<"3", "/", "4">> >>

\* C20: when the cover-art request fails (HTTP error status, timeout or no
\* connection) after the release was fetched, the fetch still delivers the
\* release, without art.  Its tags are applied to the files; no file has its
\* pictures written; and the error list holds nothing but the files whose
\* own open or tag write failed.
C20_ArtFetchFailureIsSilent ==
    (request.kind = "Metagify.apply" /\ art_response # "ok") =>
        /\ status # "Network error."
        /\ \A p \in DOMAIN disk :
              disk[p].art = snapshot[p].art /\ disk[p].covr = snapshot[p].covr
        /\ job.kind = "apply" =>
              /\ job.art_data = None
              /\ \A k \in 1..Len(attempted) :
                    LET a == attempted[k] IN
                    /\ a.fate # "art_raises"
                    /\ a.fate = "ok" =>
                          disk[a.path].tags =
                             TrackTags(snapshot[a.path].tags, job.release, a.i + 1)
              /\ saved_count = Cardinality(Succeeded(attempted))
              /\ ~Malformed(job.release) =>
                    Len(errors) =
                       Cardinality({k \in 1..Len(attempted) :
                          attempted[k].fate \in {"unopenable", "tags_raise"}})

\* The art request timed out; the release was applied to both files and the
\* report has no error.
C20_Witness ==
    /\ request.kind = "Metagify.apply"
    /\ art_response = "timeout"
    /\ Reported
    /\ report # <<>>
    /\ LastReport.saved_count = 2
    /\ LastReport.total_files = 2
    /\ LastReport.errors = <<>>

\* ------------------------------------------------------ editing: properties
SaveRequest == request.kind \in {"save", "Metatag.save"}
BatchSave == SaveRequest /\ Len(request.selection) >= 2
SingleSave == SaveRequest /\ Len(request.selection) = 1
OnlyFile == request.selection[1]
KeyOf(d) == IF app = "Metagify" THEN TAG_MAP[d] ELSE get_mutagen_key[d]

\* The fields whose box was unchecked at the click and has not been ticked
\* since (Metatag's loop reads the boxes anew for every file).
NeverTicked == (DOMAIN request.ui.checkboxes) \ request.checked

\* C5: in a batch save (two or more files selected), for every field whose
\* inclusion checkbox is unchecked, the value stored under the field's key in
\* every selected file is what it was before the save, whatever text the
\* field shows; in both programs.
C5_UncheckedFieldsUntouched ==
    BatchSave =>
      \A d \in NeverTicked :
        \A j \in 1..Len(request.selection) :
           disk[request.selection[j]].tags[KeyOf(d)] =
              snapshot[request.selection[j]].tags[KeyOf(d)]

\* Two files saved with Artist ticked and Title, showing "x", not ticked: a
\* file titled "y" got the artist and kept its title.
C5_Witness ==
    /\ app = "Metagify" /\ BatchSave /\ Reported
    /\ LastReport.saved_count = 2
    /\ ~request.ui.checkboxes["Title"]
    /\ request.ui.fields["Title"] = TX
    /\ request.ui.checkboxes["Artist"]
    /\ request.ui.fields["Artist"] = TX
    /\ \E j \in 1..2 :
         LET p == request.selection[j] IN
         /\ snapshot[p].tags["title"] = <<TY>>
         /\ disk[p].tags["title"] = <<TY>>
         /\ snapshot[p].tags["artist"] = Absent
         /\ disk[p].tags["artist"] = <<TX>>

\* C6: in a single-file save whose tags were persisted, every field is
\* applied: a field with non-empty text is stored as exactly that text, and a
\* field with empty text has no key in the file afterwards, whether or not the
\* key was there before.
C6_SingleSaveAppliesEveryField ==
    (/\ app = "Metagify"
     /\ SingleSave
     /\ attempted # <<>>
     /\ Wrote(attempted[1].fate)) =>
        \A d \in Fields :
           disk[OnlyFile].tags[TAG_MAP[d]] =
              IF Truthy(request.ui.fields[d]) THEN <<request.ui.fields[d]>>
              ELSE Absent

\* One file saved: the title it had is cleared and gone, the artist shown is
\* stored alone, the album was absent and stays absent.
C6_Witness ==
    /\ app = "Metagify" /\ SingleSave /\ Reported
    /\ attempted[1].fate = "ok"
    /\ snapshot[OnlyFile].tags["title"] = <<TX>>
    /\ request.ui.fields["Title"] = Empty
    /\ disk[OnlyFile].tags["title"] = Absent
    /\ snapshot[OnlyFile].tags["artist"] = <<TX, TY>>
    /\ request.ui.fields["Artist"] = TX
    /\ disk[OnlyFile].tags["artist"] = <<TX>>
    /\ snapshot[OnlyFile].tags["album"] = Absent
    /\ disk[OnlyFile].tags["album"] = Absent

\* C7: for each of the four formats, a picture written by the save is what
\* load_album_art shows when the file is loaded again, and it is the only
\* picture in the file.
C7_PictureRoundTrip ==
    (/\ app = "Metagify"
     /\ SingleSave
     /\ Reported
     /\ request.ui.art_is_dirty
     /\ request.ui.current_art_data \notin {None, EmptyBytes}
     /\ attempted[1].fate = "ok"
     /\ editor_visible) =>
        /\ Len(disk[OnlyFile].art) = 1
        /\ album_art_label = request.ui.current_art_data

\* C8: for each of the four formats, a picture write with delete intent (the
\* empty payload) leaves no embedded picture in the file, and a following
\* load shows no picture; in both programs.
C8_DeleteRemovesEveryPicture ==
    (/\ SingleSave
     /\ request.ui.art_is_dirty
     /\ request.ui.current_art_data = EmptyBytes
     /\ attempted # <<>>
     /\ attempted[1].fate = "ok") =>
        /\ ~HasPicture(disk[OnlyFile])
        /\ (app = "Metagify" /\ Reported /\ editor_visible) =>
              album_art_label \in {NoArt, ErrorLoadingArt}

\* The canonical value of a key: its first value, or none.
Canonical(f, key) == IF HasKey(f, key) THEN <<FirstValue(f, key)>> ELSE Absent

\* C9: for each of the four formats, selecting a single file and saving
\* without typing into any field leaves the canonical value of every key as it
\* was, absent keys staying absent.
C9_UntouchedSaveIsNoOp ==
    (app = "Metagify" /\ SingleSave /\ ~request.edited) =>
        \A key \in Keys :
           Canonical(disk[OnlyFile], key) = Canonical(snapshot[OnlyFile], key)

\* ------------------------------------------------ main window: properties
\* The slow operations that have started and not yet delivered: the threads
\* in flight, and a batch save or release application that has not reported.
OperationsInFlight ==
    BagCardinality(threads) + (IF pc = "idle" THEN 0 ELSE 1)

\* C15: at most one slow operation (file loading, remote search, release
\* fetch, batch save, release application) is in flight at any time, whatever
\* the user does.
C15_AtMostOneOperationInFlight == OperationsInFlight <= 1

\* C16: batch save and release application run off the coordinating (GUI)
\* thread: while the loop iterates over the files, the GUI thread can handle
\* an event such as the close request that raises the stop flag.
C16_CoordinatorFreeDuringRun ==
    (pc \in {"saving", "applying"} /\ WindowOpen) => ENABLED QCloseEvent

\* C17: started without a contact e-mail, the program keeps the MusicBrainz
\* button disabled and starts no search and no fetch, whatever the user does.
C17_NoContactNoLookup ==
    contact_email = None =>
        /\ ~enabled["musicbrainz_button"]
        /\ InFlight("search") = {}
        /\ InFlight("fetch") = {}

\* ------------------------------------------------- the file list: properties
NoRepeat(q) == \A i, j \in 1..Len(q) : i # j => q[i] # q[j]

\* C21: the path is a unique key of the working set: whatever was added (by
\* dialog or by drop, a batch naming a path twice, an add started before the
\* previous load has delivered), removed or cleared, no path occurs more than
\* once among the rows of the list, in Metagify.file_paths or in
\* Metatag.files_data.
C21_PathIsUniqueKey ==
    /\ NoRepeat(file_list)
    /\ NoRepeat(Metagify_file_paths)
    /\ NoRepeat(files_data)

\* C29: after any sequence of add, remove, clear and drag-reorder operations
\* Metagify.file_paths holds the paths of the rows of the list widget, in the
\* order in which they are displayed.
C29_FilePathsMirrorsList ==
    app = "Metagify" => Metagify_file_paths = file_list

\* C22: the file a selected entry denotes is stable under a sort or reorder
\* of the list: the program resolves every selected row to the path the row
\* was added with (the file the row shows), and a save runs over the files
\* the user saw selected at the click.
C22_SelectionResolvesToShownFile ==
    /\ app = "Metatag" => Metatag_paths(selected) = selected
    /\ job.kind \in {"save", "Metatag.save"} =>
          job.file_paths = request.selection

\* C28: a release is applied to the files that were selected when its fetch
\* was started: when a fetch delivers and the release is applied, the
\* selection that the track-count check and the pairing read is the one taken
\* at dispatch, whatever the user selected in the meantime.
C28_AppliedToSelectionAtDispatch ==
    [][\A t \in InFlight("fetch") :
          (threads' = Delivered(t) /\ request'.kind = "Metagify.apply")
             => request'.selection = t.files]_vars

\* ------------------------------------------------- the save loop: accounting
EntriesFor(errs, path) == {j \in 1..Len(errs) : errs[j].file = basename(path)}

\* C26: at every file boundary of process_and_save and in its final report,
\* saved_count plus the number of error entries equals the number of files
\* attempted so far; each attempted file is accounted for exactly once: a
\* file that was saved has no error entry, a file that failed has exactly one.
C26_EveryAttemptAccountedOnce ==
    SaveRun =>
      /\ pc \in {"saving", "finishing"} => Len(attempted) = idx
      /\ saved_count + Len(errors) = Len(attempted)
      /\ \A i \in 1..Len(attempted) :
            Cardinality(EntriesFor(errors, attempted[i].path)) =
               (IF attempted[i].fate = "ok" THEN 0 ELSE 1)
      /\ Reported =>
            /\ LastReport.saved_count + Len(LastReport.errors) = Len(attempted)
            /\ LastReport.errors = errors

\* Three files attempted: one saved, one failed before audio.save(), one failed
\* in the picture write; the report holds 1 success and 2 entries.
C26_Witness ==
    /\ SaveRun /\ Reported
    /\ Len(attempted) = 3
    /\ attempted[1].fate = "tags_raise"
    /\ attempted[2].fate = "ok"
    /\ attempted[3].fate = "art_raises"
    /\ LastReport.saved_count = 1
    /\ Len(LastReport.errors) = 2

PictureFailed(att) == {i \in 1..Len(att) : att[i].fate = "art_raises"}

\* C27: in process_and_save the tag write of a file is persisted before its
\* picture write starts.  A file whose picture write failed carries the tags
\* of this save on disk, has one error entry, and is not counted in
\* saved_count.
C27_TagsStayWhenPictureFails ==
    SaveRun =>
      /\ \A i \in PictureFailed(attempted) :
            /\ disk[attempted[i].path].tags =
                  ApplyTags(snapshot[attempted[i].path].tags, job.tags_to_save)
            /\ \E j \in 1..Len(errors) :
                  errors[j] = ErrorEntry(attempted[i].path, "art_raises")
      /\ saved_count <= Len(attempted) - Cardinality(PictureFailed(attempted))
      /\ Reported =>
            LastReport.saved_count
               <= Len(attempted) - Cardinality(PictureFailed(attempted))

\* A single file whose picture write failed after a tag edit that changed the
\* file: the report counts nothing and the new tags are on disk.
C27_Witness ==
    /\ SaveRun /\ Reported
    /\ Len(attempted) = 1
    /\ attempted[1].fate = "art_raises"
    /\ LastReport.saved_count = 0
    /\ Len(LastReport.errors) = 1
    /\ disk[attempted[1].path].tags # snapshot[attempted[1].path].tags
    /\ disk[attempted[1].path].art = snapshot[attempted[1].path].art

\* ------------------------------------------------ release data: properties
\* C23: for every track applied from a release, the stored artist is the
\* track's own artist credit when the track has one and the release's artist
\* credit otherwise; a track without an artist credit is still tagged and
\* does not produce an error: nothing fails for the lack of the credit, and
\* a file that was opened and saved carries that artist.
C23_ArtistIsTrackOrReleaseCredit ==
    ApplyRequest =>
        \A k \in 1..Len(attempted) :
            LET a == attempted[k]
                release == request.release
                track == release.tracks[a.i + 1]
            IN  /\ a.fate # "key_error"
                /\ Wrote(a.fate) =>
                      disk[a.path].tags["artist"] = <<TrackArtist(release, track)>>

\* The image payloads a release fetch can hand to the application.
SuppliedArt == {a.data : a \in FetchedArt} \ {None}

\* C25: when raw art bytes are supplied to release application, the art is
\* resized once, before the per-file loop, and every file that receives a
\* picture in that run receives the same resized payload; no file receives
\* the unresized bytes.
C25_ArtResizedOnce ==
    ApplyRequest =>
        \E raw \in SuppliedArt :
            \A k \in 1..Len(attempted) :
                LET p == attempted[k].path IN
                disk[p].art # snapshot[p].art =>
                    \A j \in 1..Len(disk[p].art) :
                        disk[p].art[j].data = Resize(raw)

\* The year a written file stores, and the date of the release applied.
StoredYear(p) == FirstValue(disk[p], "date")
AppliedDate ==
    IF request.release.has_date THEN request.release.date ELSE Empty
FirstFour(text) == SubSeq(text, 1, IF Len(text) < 4 THEN Len(text) ELSE 4)
IsPrefix(y, text) == Len(y) <= Len(text) /\ y = SubSeq(text, 1, Len(y))
WrittenByApply ==
    {attempted[k].path : k \in {j \in 1..Len(attempted) : Wrote(attempted[j].fate)}}

\* C24 as stated: the year stored on each file by release application is the
\* first four characters of the release date, and empty when the release has
\* no date.
C24_YearIsFirstFourCharacters ==
    ApplyRequest => \A p \in WrittenByApply : StoredYear(p) = FirstFour(AppliedDate)

\* C24, amended: the year stored on each file by release application is the
\* part of the release date before its first '-' (the whole date when it has
\* none), and empty when the release has no date: a prefix of the date that
\* holds no '-' and ends at the first '-' or at the end of the date.
C24_YearIsTextBeforeFirstDash ==
    ApplyRequest =>
        \A p \in WrittenByApply :
            LET y == StoredYear(p) IN
            /\ IsPrefix(y, AppliedDate)
            /\ \A i \in 1..Len(y) : y[i] # "-"
            /\ Len(y) < Len(AppliedDate) => AppliedDate[Len(y) + 1] = "-"
            /\ disk[p].tags["date"] = <<y>>

\* A release dated "850-01" was applied: the file stores the year "850".
C24_Witness ==
    /\ ApplyRequest
    /\ AppliedDate = << "8", "5", "0", "-", "0", "1" >>
    /\ WrittenByApply # {}
    /\ \A p \in WrittenByApply : StoredYear(p) = << "8", "5", "0" >>

\* ------------------------------------------------------ threads: properties
\* C30: every worker thread started by run_in_thread is eventually told to
\* quit once its function has ended, when the function returned and when it
\* raised: whenever threads whose function has ended are still running
\* untold, a later state has none.
C30_EveryThreadToldToQuit == (lingering > 0) ~> (lingering = 0)

====
